---- MODULE Spec2Model ----
(***************************************************************************)
(* Help renderer of clap (src/output/help.rs): render-mode selection,      *)
(* the template scanner (copy_until / copy_and_capture /                   *)
(* write_templated_help) and the two-pass argument layout (write_args,     *)
(* write_args_unsorted, write_subcommands, val, sc_val), spec_vals,        *)
(* write_all_args, wrap_help and help on the texts of an argument; and the *)
(* Styles value of clap_builder (src/builder/styling.rs): constructors,    *)
(* setters and the getters with their fallback chain.                      *)
(*                                                                         *)
(* Bytes are one-character strings; a byte string is a sequence of them.   *)
(* The text generated for a recognized tag is one opaque token such as     *)
(* "<bin>": its content is produced by code outside the scanner.           *)
(***************************************************************************)
EXTENDS Integers, Sequences, FiniteSets, TLC

VARIABLES
    app,              \* parser.app: help_str, template and the text fields
    fail_at,          \* the sink: number of the write/flush call that fails (0: none)
    writer,           \* self.writer: bytes accepted, calls received, failure seen
    tmplr,            \* Cursor over the template (write_templated_help)
    tag_buf,          \* Cursor<Vec<u8>> of 15 bytes (write_templated_help)
    pc,               \* position of the render call
    mode,             \* branch of write_help that was entered
    result,           \* value returned by write_help
    args,             \* the argument (or subcommand) collection handed to a pass
    pass,             \* which pass runs: write_args, write_args_unsorted, write_subcommands
    next_line_help,   \* Help.next_line_help
    term_w,           \* Help.term_w
    use_long,         \* Help.use_long
    longest,          \* Help.longest
    force_next_line,  \* Help.force_next_line
    arg_v,            \* items kept by the measurement pass, in render order
    cur,              \* index in arg_v of the item rendered last
    placed,           \* what val / sc_val and help / sc_help did for that item
    sv_arg,           \* the argument handed to spec_vals
    hide_pv,          \* Help.hide_pv
    color,            \* Help.color
    sv,               \* spec_vals: the local vector and the returned string
    parser,           \* what write_all_args reads of the Parser and its App
    wrap_in,          \* wrap_help: the arguments help and avail_chars
    wrapped,          \* wrap_help: the string returned
    h_arg,            \* write_arg with its texts: the argument, its spec_vals, prevent_nlh
    h_out,            \* what help wrote for it: line break, lines, closing newline
    styles,           \* a Styles value under construction (builder/styling.rs)
    preset,           \* the Styles value the constructor returned
    passed,           \* per setter, the style it was last called with
    set_calls,        \* number of setter calls made
    prior             \* longest and force_next_line as the pass before left them

vars == <<app, fail_at, writer, tmplr, tag_buf, pc, mode, result,
          args, pass, next_line_help, term_w, use_long, longest,
          force_next_line, arg_v, cur, placed,
          sv_arg, hide_pv, color, sv, parser, wrap_in, wrapped, h_arg, h_out,
          styles, preset, passed, set_calls, prior>>

renderVars == <<app, fail_at, writer, tmplr, tag_buf, mode, result>>
layoutVars == <<args, pass, next_line_help, term_w, use_long, longest,
                force_next_line, arg_v, cur, placed>>
specValsVars == <<sv_arg, hide_pv, color, sv>>
wrapVars == <<wrap_in, wrapped>>
helpVars == <<h_arg, h_out>>
stylesVars == <<styles, preset, passed, set_calls>>
reuseVars == <<prior>>
otherVars == <<specValsVars, parser, wrapVars, helpVars, stylesVars, reuseVars>>

----------------------------------------------------------------------------
(* Bounds of the explored inputs *)

MaxSegs == 3        \* pieces per template
MaxFailAt == 4      \* latest sink call that may fail
MaxSetterCalls == 2 \* setter calls on one Styles value

----------------------------------------------------------------------------
(* Byte strings *)

RECURSIVE Flatten(_)
Flatten(ss) == IF ss = <<>> THEN <<>> ELSE Head(ss) \o Flatten(Tail(ss))

RECURSIVE Repeat(_, _)
Repeat(b, n) == IF n = 0 THEN <<>> ELSE <<b>> \o Repeat(b, n - 1)

Wrap(name) == <<"{">> \o name \o <<"}">>

IsPrefix(s, t) == Len(s) <= Len(t) /\ SubSeq(t, 1, Len(s)) = s

t_bin == <<"b","i","n">>
t_version == <<"v","e","r","s","i","o","n">>
t_author == <<"a","u","t","h","o","r">>
t_about == <<"a","b","o","u","t">>
t_long_about == <<"l","o","n","g","-","a","b","o","u","t">>
t_usage == <<"u","s","a","g","e">>
t_all_args == <<"a","l","l","-","a","r","g","s">>
t_unified == <<"u","n","i","f","i","e","d">>
t_flags == <<"f","l","a","g","s">>
t_options == <<"o","p","t","i","o","n","s">>
t_positionals == <<"p","o","s","i","t","i","o","n","a","l","s">>
t_subcommands == <<"s","u","b","c","o","m","m","a","n","d","s">>
t_after_help == <<"a","f","t","e","r","-","h","e","l","p">>
t_before_help == <<"b","e","f","o","r","e","-","h","e","l","p">>
t_question == <<"?">>


RecognizedTags ==
    {t_bin, t_version, t_author, t_about, t_long_about, t_usage, t_all_args,
     t_unified, t_flags, t_options, t_positionals, t_subcommands,
     t_after_help, t_before_help}

----------------------------------------------------------------------------
(* Option<T> *)

None == [some |-> FALSE, v |-> <<>>]
Some(x) == [some |-> TRUE, v |-> x]
unwrap_or(o, d) == IF o.some THEN o.v ELSE d

----------------------------------------------------------------------------
(* The output sink (io::Write) and the in-memory cursors *)

TagBufLen == 15

IoError(k) == [kind |-> "io", call |-> k]
NoError == [kind |-> "none", call |-> 0]
ErrorFrom(e) == [kind |-> "Io", call |-> e.call]

Ok == [tag |-> "Ok", err |-> NoError]
Err(e) == [tag |-> "Err", err |-> e]
Running == [tag |-> "Running", err |-> NoError]

NewSink == [kind |-> "sink", out |-> <<>>, calls |-> 0, failed |-> FALSE]

\* One call of write / write_all / write! on a writer.  The sink refuses its
\* fail_at-th call; a Cursor<Vec<u8>> overwrites from its position and grows.
Write(w, bytes) ==
    IF w.kind = "sink"
    THEN IF w.calls + 1 = fail_at
         THEN [w |-> [w EXCEPT !.calls = @ + 1, !.failed = TRUE],
               err |-> TRUE, e |-> IoError(w.calls + 1)]
         ELSE [w |-> [w EXCEPT !.calls = @ + 1, !.out = @ \o bytes],
               err |-> FALSE, e |-> NoError]
    ELSE [w |-> [w EXCEPT
                   !.buf = SubSeq(@, 1, w.pos) \o bytes
                           \o SubSeq(@, w.pos + Len(bytes) + 1, Len(@)),
                   !.pos = @ + Len(bytes)],
          err |-> FALSE, e |-> NoError]

\* self.writer.flush()
Flush(w) ==
    IF w.calls + 1 = fail_at
    THEN [w |-> [w EXCEPT !.calls = @ + 1, !.failed = TRUE],
          err |-> TRUE, e |-> IoError(w.calls + 1)]
    ELSE [w |-> [w EXCEPT !.calls = @ + 1], err |-> FALSE, e |-> NoError]

\* A run of statements `write(..)?; write(..)?; ...`: stops at the first error.
RECURSIVE WriteAll(_, _)
WriteAll(w, calls) ==
    IF calls = <<>> THEN [w |-> w, err |-> FALSE, e |-> NoError]
    ELSE LET wr == Write(w, Head(calls))
         IN  IF wr.err THEN wr ELSE WriteAll(wr.w, Tail(calls))

NewCursor(data) == [data |-> data, pos |-> 0, limit |-> Len(data)]
Take(r, n) == [r EXCEPT !.limit = n]
IntoInner(r) == [r EXCEPT !.limit = Len(r.data)]

----------------------------------------------------------------------------
(* copy_until, copy_and_capture *)

CopyUntilEnd_OffByOne(count) ==
    IF count > 1 THEN "DelimiterNotFound" ELSE "ReaderEmpty"

\* The result of copy_until once the reader has no more bytes.
CopyUntilEnd(count) ==
    IF count > 0 THEN "DelimiterNotFound" ELSE "ReaderEmpty"

RECURSIVE copy_until_from(_, _, _, _)
copy_until_from(r, w, delimiter_byte, count) ==
    IF r.pos >= Len(r.data) \/ r.limit = 0
    THEN [res |-> CopyUntilEnd(count),
          n |-> count, r |-> r, w |-> w, e |-> NoError]
    ELSE LET b == r.data[r.pos + 1]
             r1 == [r EXCEPT !.pos = @ + 1, !.limit = @ - 1]
         IN  IF b = delimiter_byte
             THEN [res |-> "DelimiterFound", n |-> count, r |-> r1, w |-> w,
                   e |-> NoError]
             ELSE LET wr == Write(w, <<b>>)
                  IN  IF wr.err
                      THEN [res |-> "WriteError", n |-> count, r |-> r1,
                            w |-> wr.w, e |-> wr.e]
                      ELSE copy_until_from(r1, wr.w, delimiter_byte, count + 1)

copy_until(r, w, delimiter_byte) == copy_until_from(r, w, delimiter_byte, 0)

CaptureNone_Continues(r, w, tb) ==
    [ret |-> "Ok", val |-> 0, r |-> r, w |-> w, tag_buffer |-> tb, e |-> NoError]

CaptureNone(r, w, tb) ==
    [ret |-> "None", val |-> 0, r |-> r, w |-> w, tag_buffer |-> tb, e |-> NoError]
CaptureErr(r, w, tb, e) ==
    [ret |-> "Err", val |-> 0, r |-> r, w |-> w, tag_buffer |-> tb, e |-> e]
CaptureOk(r, w, tb, n) ==
    [ret |-> "Ok", val |-> n, r |-> r, w |-> w, tag_buffer |-> tb, e |-> NoError]

NotTag_Short(tb, not_tag_length) == SubSeq(tb.buf, 1, not_tag_length - 1)

\* &tag_buffer.get_ref()[0..not_tag_length]
NotTag(tb, not_tag_length) == SubSeq(tb.buf, 1, not_tag_length)

copy_and_capture(r, w, tag_buffer) ==
    LET open == copy_until(r, w, "{")
    IN  CASE open.res \in {"ReaderEmpty", "DelimiterNotFound"} ->
               CaptureNone(open.r, open.w, tag_buffer)
          [] open.res = "WriteError" ->
               CaptureErr(open.r, open.w, tag_buffer, open.e)
          [] open.res = "DelimiterFound" ->
               LET tb0 == [tag_buffer EXCEPT !.pos = 0]
                   buffer_size == Len(tag_buffer.buf)
                   close == copy_until(Take(open.r, buffer_size), tb0, "}")
                   r2 == IntoInner(close.r)
                   tb == close.w
               IN  CASE close.res = "ReaderEmpty" ->
                          CaptureNone(r2, open.w, tb)
                     [] close.res = "DelimiterFound" ->
                          CaptureOk(r2, open.w, tb, close.n)
                     [] close.res = "DelimiterNotFound" ->
                          LET w1 == Write(open.w, <<"{">>)
                              w2 == Write(w1.w, NotTag(tb, close.n))
                          IN  IF w1.err THEN CaptureErr(r2, w1.w, tb, w1.e)
                              ELSE IF w2.err THEN CaptureErr(r2, w2.w, tb, w2.e)
                              ELSE CaptureOk(r2, w2.w, tb, 0)


----------------------------------------------------------------------------
(* Text: str_width, str::lines, str::replace, wrap_help *)

\* UnicodeWidthStr::width on the characters used here: a newline has no
\* width, every other character has width 1.
RECURSIVE str_width(_)
str_width(str) ==
    IF str = <<>> THEN 0
    ELSE (IF Head(str) = "\n" THEN 0 ELSE 1) + str_width(Tail(str))

\* str::split(delim), every piece kept.
RECURSIVE Split(_, _)
Split(str, delim) ==
    IF \A i \in 1..Len(str) : str[i] # delim THEN <<str>>
    ELSE LET k == CHOOSE i \in 1..Len(str) :
                      str[i] = delim /\ \A j \in 1..(i - 1) : str[j] # delim
         IN  <<SubSeq(str, 1, k - 1)>> \o Split(SubSeq(str, k + 1, Len(str)), delim)

\* str::lines: the pieces between newlines, without the empty piece after a
\* final newline (and no line at all for the empty string).
StrLines(str) ==
    LET pieces == Split(str, "\n")
    IN  IF pieces[Len(pieces)] = <<>> THEN SubSeq(pieces, 1, Len(pieces) - 1)
        ELSE pieces

\* [String]::join(sep) on character strings.
RECURSIVE JoinStr(_, _)
JoinStr(strs, sep) ==
    IF strs = <<>> THEN <<>>
    ELSE IF Len(strs) = 1 THEN strs[1]
    ELSE strs[1] \o sep \o JoinStr(Tail(strs), sep)

\* str::replace("{n}", "\n")
RECURSIVE ReplaceN(_)
ReplaceN(str) ==
    IF str = <<>> THEN <<>>
    ELSE IF IsPrefix(<<"{", "n", "}">>, str)
         THEN <<"\n">> \o ReplaceN(SubSeq(str, 4, Len(str)))
         ELSE <<Head(str)>> \o ReplaceN(Tail(str))

\* str::contains("{n}")
ContainsN(str) ==
    \E i \in 1..Len(str) : IsPrefix(<<"{", "n", "}">>, SubSeq(str, i, Len(str)))

NonEmpty(str) == str # <<>>

\* The words of a line: the runs of characters between spaces.
WordsOf(line) == SelectSeq(Split(line, " "), NonEmpty)

\* Greedy filling: words go on the current line while line, space and word
\* fit in width; a word never breaks.
RECURSIVE FillWords(_, _, _)
FillWords(words, line, width) ==
    IF words = <<>> THEN <<line>>
    ELSE IF str_width(line) + 1 + str_width(Head(words)) <= width
         THEN FillWords(Tail(words), line \o <<" ">> \o Head(words), width)
         ELSE <<line>> \o FillWords(Tail(words), Head(words), width)

\* textwrap::Wrapper::new(width).break_words(false).fill(line): a line that
\* fits is returned as it is, a longer one is filled word by word.
Fill(line, width) ==
    IF str_width(line) <= width \/ WordsOf(line) = <<>> THEN line
    ELSE JoinStr(FillWords(Tail(WordsOf(line)), Head(WordsOf(line)), width), <<"\n">>)

WrapLines_WholeText(h_str) == <<h_str>>

\* help.lines() in wrap_help: each line is filled on its own.
WrapLines(h_str) == StrLines(h_str)

wrap_help(h_str, avail_chars) ==
    LET ls == WrapLines(h_str)
    IN  JoinStr([i \in 1..Len(ls) |-> Fill(ls[i], avail_chars)], <<"\n">>)

wrap_help_call ==
    /\ pc = "wrap_help"
    /\ wrapped' = wrap_help(wrap_in.help, wrap_in.avail_chars)
    /\ pc' = "done"
    /\ UNCHANGED wrap_in
    /\ UNCHANGED <<specValsVars, parser, helpVars, stylesVars, reuseVars>>
    /\ UNCHANGED renderVars
    /\ UNCHANGED layoutVars

----------------------------------------------------------------------------
(* write_help, write_default_help, write_templated_help *)

\* The write calls of one arm of the match on the captured tag; every arm
\* propagates the first error with `?`.
TagArm_NoPlaceholder(a, r) ==
    CASE r = t_question -> << <<"Could not decode tag name">> >>
      [] r = t_bin -> << <<"<bin>">> >>
      [] r = t_version -> << <<unwrap_or(a.version, "")>> >>
      [] r = t_author -> << unwrap_or(a.author, <<"unknown author">>) >>
      [] r = t_about -> << unwrap_or(a.about, <<"unknown about">>) >>
      [] r = t_long_about -> << unwrap_or(a.long_about, <<>>) >>
      [] r = t_usage -> << <<"<usage>">> >>
      [] r = t_all_args -> << <<"<all-args>">> >>
      [] r = t_unified -> << <<"<unified>">> >>
      [] r = t_flags -> << <<"<flags>">> >>
      [] r = t_options -> << <<"<options>">> >>
      [] r = t_positionals -> << <<"<positionals>">> >>
      [] r = t_subcommands -> << <<"<subcommands>">> >>
      [] r = t_after_help -> << unwrap_or(a.more_help, <<"unknown after-help">>) >>
      [] r = t_before_help -> << unwrap_or(a.pre_help, <<"unknown before-help">>) >>
      [] OTHER -> << <<"{">>, r, <<"}">> >>

TagArm(a, r) ==
    CASE r = t_question -> << <<"Could not decode tag name">> >>
      [] r = t_bin -> << <<"<bin>">> >>
      [] r = t_version -> << <<unwrap_or(a.version, "unknown version")>> >>
      [] r = t_author -> << unwrap_or(a.author, <<"unknown author">>) >>
      [] r = t_about -> << unwrap_or(a.about, <<"unknown about">>) >>
      [] r = t_long_about -> << unwrap_or(a.long_about, <<"unknown about">>) >>
      [] r = t_usage -> << <<"<usage>">> >>
      [] r = t_all_args -> << <<"<all-args>">> >>
      [] r = t_unified -> << <<"<unified>">> >>
      [] r = t_flags -> << <<"<flags>">> >>
      [] r = t_options -> << <<"<options>">> >>
      [] r = t_positionals -> << <<"<positionals>">> >>
      [] r = t_subcommands -> << <<"<subcommands>">> >>
      [] r = t_after_help -> << unwrap_or(a.more_help, <<"unknown after-help">>) >>
      [] r = t_before_help -> << unwrap_or(a.pre_help, <<"unknown before-help">>) >>
      [] OTHER -> << <<"{">>, r, <<"}">> >>

\* What write_before_after_help writes for h.
write_before_after_help(h) ==
    LET too_long == str_width(h) >= term_w
    IN  IF too_long \/ ContainsN(h) THEN wrap_help(ReplaceN(h), term_w) ELSE h

\* What the macro write_thing! writes for thing.
write_thing(thing) == wrap_help(ReplaceN(thing), term_w) \o <<"\n">>

\* The write calls of write_default_help, in program order (the flush
\* follows them); any_args is `flags || opts || pos || subcmds` and
\* all_args the write calls of write_all_args.
DefaultCallsWith(a, any_args, all_args) ==
    (IF a.pre_help.some
     THEN << write_before_after_help(a.pre_help.v), <<"\n\n">> >> ELSE <<>>)
    \o << <<"<bin>">>, <<" ">>, <<unwrap_or(a.version, "")>>, <<"\n">> >>
    \o (IF a.author.some THEN << write_thing(a.author.v) >> ELSE <<>>)
    \o (IF a.long_about.some THEN << write_thing(a.long_about.v) >>
        ELSE IF a.about.some THEN << write_thing(a.about.v) >> ELSE <<>>)
    \o << <<"\nUSAGE:">>, <<"\n", "    ", "<usage>", "\n\n">> >>
    \o (IF any_args THEN all_args ELSE <<>>)
    \o (IF a.more_help.some
        THEN (IF any_args THEN << <<"\n\n">> >> ELSE <<>>)
             \o << write_before_after_help(a.more_help.v) >>
        ELSE <<>>)

\* write_default_help with what write_all_args writes taken as one token.
DefaultCalls(a) == DefaultCallsWith(a, a.has_args, << <<"<all-args>">> >>)

write_default_help ==
    LET d == WriteAll(writer, DefaultCalls(app))
        f == Flush(d.w)
    IN  /\ writer' = IF d.err THEN d.w ELSE f.w
        /\ result' = IF d.err THEN Err(ErrorFrom(d.e))
                     ELSE IF f.err THEN Err(ErrorFrom(f.e)) ELSE Ok
        /\ pc' = "done"
        /\ UNCHANGED <<tmplr, tag_buf>>

HelpBranch_TemplateFirst(a) ==
    IF a.template.some THEN "template"
    ELSE IF a.help_str.some THEN "help_str" ELSE "default"

\* The branch of write_help that runs.
HelpBranch(a) ==
    IF a.help_str.some THEN "help_str"
    ELSE IF a.template.some THEN "template" ELSE "default"

write_help ==
    /\ pc = "write_help"
    /\ IF HelpBranch(app) = "help_str"
       THEN LET wr == Write(writer, app.help_str.v)
            IN  /\ mode' = "help_str"
                /\ writer' = wr.w
                /\ result' = IF wr.err THEN Err(ErrorFrom(wr.e)) ELSE Ok
                /\ pc' = "done"
                /\ UNCHANGED <<tmplr, tag_buf>>
       ELSE IF HelpBranch(app) = "template"
       THEN /\ mode' = "template"
            /\ tmplr' = NewCursor(app.template.v)
            /\ tag_buf' = [kind |-> "cursor", buf |-> Repeat("NUL", TagBufLen), pos |-> 0]
            /\ pc' = "write_templated_help"
            /\ UNCHANGED <<writer, result>>
       ELSE /\ mode' = "default"
            /\ write_default_help
    /\ UNCHANGED <<app, fail_at>>
    /\ UNCHANGED layoutVars
    /\ UNCHANGED otherVars

CapturedTag_Short(tb, tag_length) == SubSeq(tb.buf, 1, tag_length - 1)

\* &tag_buf.get_ref()[0..tag_length]
CapturedTag(tb, tag_length) == SubSeq(tb.buf, 1, tag_length)

LoopControl_ErrSwallowed(cc) ==
    CASE cc.ret = "None" -> "return_ok"
      [] cc.ret = "Ok" /\ cc.val > 0 -> "tag"
      [] OTHER -> "continue"

\* The match on the result of copy_and_capture that heads the loop body.
LoopControl(cc) ==
    CASE cc.ret = "None" -> "return_ok"
      [] cc.ret = "Err" -> "return_err"
      [] cc.ret = "Ok" /\ cc.val > 0 -> "tag"
      [] OTHER -> "continue"

\* One iteration of the loop of write_templated_help.
write_templated_help ==
    /\ pc = "write_templated_help"
    /\ LET cc == copy_and_capture(tmplr, writer, tag_buf)
           r == CapturedTag(cc.tag_buffer, cc.val)
           d == WriteAll(cc.w, TagArm(app, r))
       IN  /\ tmplr' = cc.r
           /\ tag_buf' = cc.tag_buffer
           /\ CASE LoopControl(cc) = "return_ok" ->
                     /\ writer' = cc.w
                     /\ result' = Ok
                     /\ pc' = "done"
                [] LoopControl(cc) = "return_err" ->
                     /\ writer' = cc.w
                     /\ result' = Err(ErrorFrom(cc.e))
                     /\ pc' = "done"
                [] LoopControl(cc) = "tag" ->
                     /\ writer' = d.w
                     /\ result' = IF d.err THEN Err(ErrorFrom(d.e)) ELSE result
                     /\ pc' = IF d.err THEN "done" ELSE pc
                [] OTHER ->
                     /\ writer' = cc.w
                     /\ UNCHANGED <<result, pc>>
    /\ UNCHANGED <<app, fail_at, mode>>
    /\ UNCHANGED layoutVars
    /\ UNCHANGED otherVars

----------------------------------------------------------------------------
(* The layout passes: write_args, write_args_unsorted, write_subcommands *)

Max(a, b) == IF a >= b THEN a ELSE b

should_show_arg_HiddenShown(ul, arg) ==
    \/ ~arg.hidden_long_help /\ ul
    \/ ~arg.hidden_short_help /\ ~ul
    \/ arg.next_line_help

should_show_arg(ul, arg) ==
    IF arg.hidden THEN FALSE
    ELSE \/ ~arg.hidden_long_help /\ ul
         \/ ~arg.hidden_short_help /\ ~ul
         \/ arg.next_line_help

\* Arg::longest_filter: an item marked next-line-help takes no part in the
\* width measurement.
longest_filter(arg) == ~arg.next_line_help

\* The loops `for arg in args.filter(...)` of write_args and
\* write_args_unsorted, and the loop of write_subcommands: the value of
\* self.longest after the items of s, starting from l.
RECURSIVE MeasureArgs(_, _, _)
MeasureArgs(s, ul, l) ==
    IF s = <<>> THEN l
    ELSE LET arg == Head(s)
         IN  MeasureArgs(Tail(s), ul,
                 IF should_show_arg(ul, arg) /\ longest_filter(arg)
                 THEN Max(l, arg.width) ELSE l)

RECURSIVE MeasureSubcommands_LastWins(_, _)
MeasureSubcommands_LastWins(s, l) ==
    IF s = <<>> THEN l
    ELSE LET sc == Head(s)
         IN  MeasureSubcommands_LastWins(Tail(s), IF ~sc.hidden THEN sc.width ELSE l)

RECURSIVE MeasureSubcommands(_, _)
MeasureSubcommands(s, l) ==
    IF s = <<>> THEN l
    ELSE LET sc == Head(s)
         IN  MeasureSubcommands(Tail(s), IF ~sc.hidden THEN Max(l, sc.width) ELSE l)

OrdKeyLess_NameOnly(a, b) == a.name < b.name

\* ord_m: VecMap keyed by disp_ord of BTreeMaps keyed by name; values() of
\* both iterate in ascending key order, and an insert replaces an equal key.
OrdKeyLess(a, b) ==
    \/ a.disp_ord < b.disp_ord
    \/ a.disp_ord = b.disp_ord /\ a.name < b.name

RECURSIVE OrdInsert(_, _)
OrdInsert(m, x) ==
    IF m = <<>> THEN <<x>>
    ELSE IF OrdKeyLess(x, Head(m)) THEN <<x>> \o m
    ELSE IF OrdKeyLess(Head(m), x) THEN <<Head(m)>> \o OrdInsert(Tail(m), x)
    ELSE <<x>> \o Tail(m)

RECURSIVE OrdMap(_)
OrdMap(s) ==
    IF s = <<>> THEN <<>>
    ELSE OrdInsert(OrdMap(SubSeq(s, 1, Len(s) - 1)), s[Len(s)])

ForceNextLine_AtThreshold(nlh, h_w) ==
    LET taken == longest + 12
    IN  /\ ~nlh
        /\ term_w >= taken
        /\ 5 * taken >= 2 * term_w
        /\ h_w > term_w - taken

ForceNextLine_NlhIgnored(nlh, h_w) ==
    LET taken == longest + 12
    IN  /\ term_w >= taken
        /\ 5 * taken > 2 * term_w
        /\ h_w > term_w - taken

\* self.force_next_line as assigned by val and sc_val; the f32 comparison
\* taken / term_w > 0.40 agrees with 5 * taken > 2 * term_w for every
\* width below 2^23.
ForceNextLine(nlh, h_w) ==
    LET taken == longest + 12
    IN  /\ ~nlh
        /\ term_w >= taken
        /\ 5 * taken > 2 * term_w
        /\ h_w > term_w - taken

NoPad == -1

val_SamePadUnits(arg) ==
    LET h_w == arg.help_w + arg.spec_w
        nlh == next_line_help \/ arg.next_line_help
        fnl == ForceNextLine(nlh, h_w)
        self_len == arg.label_w
    IN  [force_next_line |-> fnl,
         pad |-> IF nlh \/ fnl THEN NoPad
                 ELSE IF arg.has_switch
                      THEN (longest - self_len) + 4
                      ELSE longest + 4 - self_len]

\* val: sets force_next_line and gives the number of spaces written after
\* the label (NoPad when none is written).
val(arg) ==
    LET h_w == arg.help_w + arg.spec_w
        nlh == next_line_help \/ arg.next_line_help
        fnl == ForceNextLine(nlh, h_w)
        self_len == arg.label_w
    IN  [force_next_line |-> fnl,
         pad |-> IF nlh \/ fnl THEN NoPad
                 ELSE IF arg.has_switch
                      THEN (longest - self_len) + (IF arg.long THEN 4 ELSE 8)
                      ELSE longest + 4 - self_len]

\* help: whether the help text starts on a new line.
help(arg, fnl) ==
    LET nlh == next_line_help \/ arg.next_line_help \/ use_long
    IN  nlh \/ fnl

\* help: the indentation written before every line of the help but the first.
HelpIndent(arg, fnl) ==
    IF help(arg, fnl) THEN 12
    ELSE IF arg.has_switch THEN longest + 12 ELSE longest + 8

\* The columns short, long and val write for the label: TAB, then the short
\* form and `, ` or, for a switch without one, a second TAB, then the long
\* form and the values. arg.to_string() is the label without the short
\* form when there is a long form.
LabelWritten(arg) ==
    4 + (IF arg.has_switch /\ arg.long THEN 4 ELSE 0) + arg.label_w

sc_val(sc) ==
    LET h_w == sc.help_w + sc.spec_w
        nlh == next_line_help
        fnl == ForceNextLine(nlh, h_w)
    IN  [force_next_line |-> fnl,
         pad |-> IF nlh \/ fnl THEN NoPad ELSE longest + 4 - sc.label_w]

sc_help(sc, fnl) ==
    LET nlh == next_line_help \/ use_long
    IN  nlh \/ fnl

sc_HelpIndent(sc, fnl) == IF sc_help(sc, fnl) THEN 12 ELSE longest + 8

\* write_subcommand writes TAB and the name before sc_val pads.
SubcommandLabelWritten(sc) == 4 + sc.width

ShowArg(arg) == should_show_arg(use_long, arg)
ShowSubcommand(sc) == ~sc.hidden

PassBegin(l, v) ==
    /\ longest' = l
    /\ arg_v' = v
    /\ cur' = 0
    /\ placed' = <<>>
    /\ pc' = IF v = <<>> THEN "done" ELSE "items"
    /\ UNCHANGED <<args, pass, next_line_help, term_w, use_long, force_next_line>>
    /\ UNCHANGED renderVars
    /\ UNCHANGED otherVars

write_args_KeepsLongest ==
    /\ pc = "pass" /\ pass = "write_args"
    /\ PassBegin(MeasureArgs(args, use_long, longest), OrdMap(SelectSeq(args, ShowArg)))

write_args ==
    /\ pc = "pass" /\ pass = "write_args"
    /\ PassBegin(MeasureArgs(args, use_long, 2), OrdMap(SelectSeq(args, ShowArg)))

write_args_unsorted ==
    /\ pc = "pass" /\ pass = "write_args_unsorted"
    /\ PassBegin(MeasureArgs(args, use_long, 2), SelectSeq(args, ShowArg))

write_subcommands ==
    /\ pc = "pass" /\ pass = "write_subcommands"
    /\ PassBegin(MeasureSubcommands(args, 2), OrdMap(SelectSeq(args, ShowSubcommand)))

\* What was written for an item: the padding after the label, whether the
\* help starts on a new line, the column of its first line and the
\* indentation of the lines after it.
Placement(item, v, nl, label, indent) ==
    [name |-> item.name, pad |-> v.pad, newline |-> nl,
     first |-> IF nl THEN 12 ELSE label + v.pad, indent |-> indent]

ItemDone(item, v, nl, label, indent) ==
    /\ force_next_line' = v.force_next_line
    /\ placed' = Append(placed, Placement(item, v, nl, label, indent))
    /\ cur' = cur + 1
    /\ pc' = IF cur + 1 = Len(arg_v) THEN "done" ELSE "items"
    /\ UNCHANGED <<args, pass, next_line_help, term_w, use_long, longest, arg_v>>
    /\ UNCHANGED renderVars
    /\ UNCHANGED otherVars

write_arg ==
    /\ pc = "items" /\ pass \in {"write_args", "write_args_unsorted"}
    /\ LET arg == arg_v[cur + 1]
           v == val(arg)
       IN  ItemDone(arg, v, help(arg, v.force_next_line), LabelWritten(arg),
                    HelpIndent(arg, v.force_next_line))

write_subcommand ==
    /\ pc = "items" /\ pass = "write_subcommands"
    /\ LET sc == arg_v[cur + 1]
           v == sc_val(sc)
       IN  ItemDone(sc, v, sc_help(sc, v.force_next_line), SubcommandLabelWritten(sc),
                    sc_HelpIndent(sc, v.force_next_line))

----------------------------------------------------------------------------
(* spec_vals *)

\* [T]::join on strings.
RECURSIVE Join(_, _)
Join(ss, sep) ==
    IF ss = <<>> THEN ""
    ELSE IF Len(ss) = 1 THEN ss[1]
    ELSE ss[1] \o sep \o Join(Tail(ss), sep)

\* self.cizer.good(..) when colour is on, Format::None(..) when it is off:
\* the text between the escape sequences of the "good" colour, or as it is.
Good(c, str) == IF c THEN "\\e[32m" \o str \o "\\e[0m" ELSE str

RECURSIVE GoodAll(_, _)
GoodAll(c, ss) ==
    IF ss = <<>> THEN <<>> ELSE <<Good(c, Head(ss))>> \o GoodAll(c, Tail(ss))

IsVisibleAlias(als) == als[2]

RECURSIVE AliasNames(_)
AliasNames(aliases) ==
    IF aliases = <<>> THEN <<>> ELSE <<Head(aliases)[1]>> \o AliasNames(Tail(aliases))

EnvInfo(arg) ==
    LET env_val == IF ~arg.hide_env_values
                   THEN "=" \o unwrap_or(arg.env.v[2], "")
                   ELSE ""
    IN  " [env: " \o arg.env.v[1] \o env_val \o "]"

DefaultInfo(c, arg) == " [default: " \o Good(c, arg.default_val.v) \o "]"

AliasesJoined(c, arg) ==
    Join(GoodAll(c, AliasNames(SelectSeq(arg.aliases.v, IsVisibleAlias))), ", ")

AliasesInfo(c, arg) == " [aliases: " \o AliasesJoined(c, arg) \o "]"

PossibleValsInfo(c, arg) ==
    " [possible values: " \o Join(GoodAll(c, arg.possible_vals.v), ", ") \o "]"

PossibleValsShown_ItemFlagIgnored(hpv, arg) == ~hpv

\* if !self.hide_pv && !a.is_set(ArgSettings::HidePossibleValues)
PossibleValsShown(hpv, arg) == ~hpv /\ ~arg.hide_possible_values

\* The vector spec_vals after the four pushes.
SpecValsVec(hpv, c, arg) ==
    (IF arg.env.some THEN <<EnvInfo(arg)>> ELSE <<>>)
    \o (IF ~arg.hide_default_value /\ arg.default_val.some
        THEN <<DefaultInfo(c, arg)>> ELSE <<>>)
    \o (IF arg.aliases.some /\ AliasesJoined(c, arg) # ""
        THEN <<AliasesInfo(c, arg)>> ELSE <<>>)
    \o (IF PossibleValsShown(hpv, arg) /\ arg.possible_vals.some
        THEN <<PossibleValsInfo(c, arg)>> ELSE <<>>)

\* The separator of spec_vals.join(" ").
SpecValsSep == " "

spec_vals ==
    /\ pc = "spec_vals"
    /\ LET vec == SpecValsVec(hide_pv, color, sv_arg)
       IN  sv' = [spec_vals |-> vec, ret |-> Join(vec, SpecValsSep)]
    /\ pc' = "done"
    /\ UNCHANGED <<sv_arg, hide_pv, color, parser>>
    /\ UNCHANGED wrapVars
    /\ UNCHANGED helpVars
    /\ UNCHANGED stylesVars
    /\ UNCHANGED reuseVars
    /\ UNCHANGED renderVars
    /\ UNCHANGED layoutVars

SpecValsIdle ==
    /\ sv_arg = <<>>
    /\ hide_pv = FALSE
    /\ color = FALSE
    /\ sv = [spec_vals |-> <<>>, ret |-> ""]

WrapIdle ==
    /\ wrap_in = <<>>
    /\ wrapped = <<>>

HelpIdle ==
    /\ h_arg = <<>>
    /\ h_out = <<>>

StylesIdle ==
    /\ styles = <<>>
    /\ preset = <<>>
    /\ passed = <<>>
    /\ set_calls = 0

ReuseIdle == prior = <<>>

OtherIdle ==
    /\ SpecValsIdle
    /\ parser = <<>>
    /\ WrapIdle
    /\ HelpIdle
    /\ StylesIdle
    /\ ReuseIdle

----------------------------------------------------------------------------
(* write_all_args *)

\* color!(self, text, warning): the text in the escape sequences of the
\* "warning" colour when colour is on, the text itself when it is off.
Warning(c, str) == IF c THEN "\\e[33m" \o str \o "\\e[0m" ELSE str

IsSome(o) == o.some
HasHeading(arg) == arg.help_heading.some

\* The writes of one section: the separator unless the section is the first
\* one, the header, and what the pass called for the section writes.
Section(first, c, header, body) ==
    (IF ~first THEN << <<"\n\n">> >> ELSE <<>>)
    \o << <<Warning(c, header)>>, <<body>> >>

\* The loop over parser.app.help_headings of write_all_args.
RECURSIVE HeadingSections(_, _, _)
HeadingSections(first, c, headings) ==
    IF headings = <<>> THEN <<>>
    ELSE LET heading == Head(headings).v
         IN  Section(first, c, heading \o ":\n", "<args under " \o heading \o ">")
             \o HeadingSections(FALSE, c, Tail(headings))

\* Whether the loop over the custom headings is reached: it stands in the
\* else branch of `if unified_help && (flags || opts)`.
CustomHeadingsBranch(custom_headings, unified_taken) ==
    ~unified_taken /\ custom_headings

\* The write calls of write_all_args, in program order.
AllArgsCalls(ul, c, prs) ==
    LET flags == prs.has_flags
        pos == Len(SelectSeq(prs.positionals, LAMBDA arg : should_show_arg(ul, arg))) > 0
        opts == prs.has_opts
        subcmds == prs.has_visible_subcommands
        custom_headings == Len(SelectSeq(prs.custom_headings, HasHeading)) > 0
        s_pos == IF pos THEN Section(TRUE, c, "ARGS:\n", "<positionals>") ELSE <<>>
        first1 == ~pos
        unified_taken == prs.unified_help /\ (flags \/ opts)
        s_unified == IF unified_taken
                     THEN Section(first1, c, "OPTIONS:\n", "<unified>") ELSE <<>>
        s_flags == IF ~unified_taken /\ flags
                   THEN Section(first1, c, "FLAGS:\n", "<flags>") ELSE <<>>
        first2 == first1 /\ s_flags = <<>>
        s_opts == IF ~unified_taken /\ opts
                  THEN Section(first2, c, "OPTIONS:\n", "<options>") ELSE <<>>
        first3 == first2 /\ s_opts = <<>> /\ s_unified = <<>>
        headings == SelectSeq(prs.help_headings, IsSome)
        s_custom == IF CustomHeadingsBranch(custom_headings, unified_taken)
                    THEN HeadingSections(first3, c, headings) ELSE <<>>
        first4 == first3 /\ s_custom = <<>>
        s_subcmds == IF subcmds
                     THEN Section(first4, c, "SUBCOMMANDS:\n", "<subcommands>") ELSE <<>>
    IN  s_pos \o s_unified \o s_flags \o s_opts \o s_custom \o s_subcmds

write_all_args ==
    /\ pc = "write_all_args"
    /\ LET d == WriteAll(writer, AllArgsCalls(use_long, color, parser))
       IN  /\ writer' = d.w
           /\ result' = IF d.err THEN Err(ErrorFrom(d.e)) ELSE Ok
    /\ pc' = "done"
    /\ UNCHANGED <<app, fail_at, tmplr, tag_buf, mode>>
    /\ UNCHANGED layoutVars
    /\ UNCHANGED otherVars

\* Parser::has_positionals: the command declares a positional.
has_positionals(prs) == Len(prs.positionals) > 0

\* `flags || opts || pos || subcmds` of write_default_help.
AnyArgs(prs) ==
    prs.has_flags \/ prs.has_opts \/ has_positionals(prs) \/ prs.has_subcommands

\* write_default_help on a parser whose sections write_all_args writes.
write_default_help_sections ==
    /\ pc = "write_default_help"
    /\ LET d == WriteAll(writer,
                  DefaultCallsWith(app, AnyArgs(parser),
                                   AllArgsCalls(use_long, color, parser)))
           f == Flush(d.w)
       IN  /\ writer' = IF d.err THEN d.w ELSE f.w
           /\ result' = IF d.err THEN Err(ErrorFrom(d.e))
                        ELSE IF f.err THEN Err(ErrorFrom(f.e)) ELSE Ok
    /\ pc' = "done"
    /\ UNCHANGED <<app, fail_at, tmplr, tag_buf, mode>>
    /\ UNCHANGED layoutVars
    /\ UNCHANGED otherVars

----------------------------------------------------------------------------
(* write_arg on the texts of an argument: val, then help *)

\* usize::MAX, cut to the largest integer the checker holds: all that is
\* read of it is that it exceeds every width.
UsizeMax == 2147483647

\* The first help line of an item in column mode continues the label's line.
SameLine == -1

Panic == [tag |-> "Panic", err |-> NoError]

\* let h = if self.use_long { .. } else { .. } in help
HelpString(ul, arg) ==
    IF ul
    THEN IF arg.long_help.some THEN arg.long_help.v ELSE unwrap_or(arg.help, <<>>)
    ELSE IF arg.help.some THEN arg.help.v ELSE unwrap_or(arg.long_help, <<>>)

\* h_w in val: the width of arg.help as it stands, and of the spec values.
HelpWidthOf(arg, specv) == str_width(unwrap_or(arg.help, <<>>)) + str_width(specv)

\* self.force_next_line as val assigns it.
ValForceNextLine(arg, specv) ==
    ForceNextLine(next_line_help \/ arg.next_line_help, HelpWidthOf(arg, specv))

Contains(str, ch) == \E i \in 1..Len(str) : str[i] = ch

\* self.term_w - spcs on usize: the difference, or the wrapped value where a
\* build without overflow checks goes on.
AvailChars(spcs) ==
    IF spcs <= term_w THEN term_w - spcs ELSE UsizeMax - (spcs - term_w) + 1

\* help: whether the help starts on its own line, whether the text was
\* re-wrapped and with which indent, the lines written with the indentation
\* of each, and whether a closing newline follows.  With
\* overflow checks the subtraction term_w - spcs panics when spcs > term_w.
HelpRender(arg, specv, prevent_nlh, fnl, overflow_checks) ==
    LET h == HelpString(use_long, arg)
        nl == help(arg, fnl)
        spcs == IF nl THEN 12 ELSE longest + 12
        too_long == spcs + str_width(h) + str_width(specv) >= term_w
        wraps == (too_long /\ spcs <= term_w) \/ ContainsN(h)
        panics == wraps /\ spcs > term_w /\ overflow_checks
        str == IF wraps THEN wrap_help(ReplaceN(h \o specv), AvailChars(spcs))
               ELSE h \o specv
        parts == StrLines(str)
        indent == IF nl THEN 12 ELSE IF arg.has_switch THEN longest + 12 ELSE longest + 8
    IN  [panicked |-> panics,
         wrapped |-> wraps,
         spcs |-> spcs,
         newline |-> nl,
         lines |-> IF panics THEN <<>>
                   ELSE [i \in 1..Len(parts) |->
                            [indent |-> IF i > 1 THEN indent
                                        ELSE IF nl THEN 12 ELSE SameLine,
                             str |-> parts[i]]],
         closing |-> ~panics /\ ~prevent_nlh /\ ~Contains(str, "\n") /\ nl]

RECURSIVE LineCalls(_, _)
LineCalls(ls, i) ==
    IF i > Len(ls) THEN <<>>
    ELSE (IF i = 1 THEN << ls[i].str >>
          ELSE << <<"\n">>, Repeat(" ", ls[i].indent), ls[i].str >>)
         \o LineCalls(ls, i + 1)

\* The write calls of help, in program order.
HelpCalls(r) ==
    (IF r.newline THEN << <<"\n">> \o Repeat(" ", 12) >> ELSE <<>>)
    \o LineCalls(r.lines, 1)
    \o (IF r.closing THEN << <<"\n">> >> ELSE <<>>)

write_arg_help ==
    /\ pc = "write_arg_help"
    /\ LET fnl == ValForceNextLine(h_arg.arg, h_arg.spec_vals)
       IN  /\ force_next_line' = fnl
           /\ \E overflow_checks \in BOOLEAN :
                LET r == HelpRender(h_arg.arg, h_arg.spec_vals, h_arg.prevent_nlh,
                                    fnl, overflow_checks)
                    d == WriteAll(writer, HelpCalls(r))
                IN  /\ h_out' = r
                    /\ writer' = d.w
                    /\ result' = IF r.panicked THEN Panic
                                 ELSE IF d.err THEN Err(d.e) ELSE Ok
    /\ pc' = "done"
    /\ UNCHANGED <<app, fail_at, tmplr, tag_buf, mode>>
    /\ UNCHANGED <<args, pass, next_line_help, term_w, use_long, longest, arg_v, cur, placed>>
    /\ UNCHANGED <<specValsVars, parser, wrapVars, h_arg, stylesVars, reuseVars>>

----------------------------------------------------------------------------
(* Styles (clap_builder/src/builder/styling.rs) *)

\* A Style is named by what it sets; Style::new() sets nothing.
StyleNew == "new"

\* Styles::plain()
plain ==
    [header |-> StyleNew, error |-> StyleNew, usage |-> StyleNew,
     literal |-> StyleNew, placeholder |-> StyleNew, valid |-> StyleNew,
     invalid |-> StyleNew, context |-> StyleNew,
     context_data |-> None,
     context_aliases |-> None, context_aliases_data |-> None,
     context_default |-> None, context_default_data |-> None,
     context_env |-> None, context_env_data |-> None,
     context_possible_values |-> None, context_possible_values_data |-> None]

\* Styles::styled() with the feature "color"; without it, styled() is plain().
styled ==
    [header |-> "bold_underline", error |-> "red_bold", usage |-> "bold_underline",
     literal |-> "bold", placeholder |-> StyleNew, valid |-> "green",
     invalid |-> "yellow", context |-> StyleNew,
     context_data |-> None,
     context_aliases |-> None, context_aliases_data |-> None,
     context_default |-> None, context_default_data |-> None,
     context_env |-> None, context_env_data |-> None,
     context_possible_values |-> None, context_possible_values_data |-> None]

\* The setters: each takes the Styles value and returns the updated one.
header(s, style) == [s EXCEPT !.header = style]
error(s, style) == [s EXCEPT !.error = style]
usage(s, style) == [s EXCEPT !.usage = style]
literal(s, style) == [s EXCEPT !.literal = style]
placeholder(s, style) == [s EXCEPT !.placeholder = style]
valid(s, style) == [s EXCEPT !.valid = style]
invalid(s, style) == [s EXCEPT !.invalid = style]

context_AlsoData(s, style) ==
    [s EXCEPT !.context = style, !.context_data = Some(style)]

context(s, style) == [s EXCEPT !.context = style]
context_data(s, style) == [s EXCEPT !.context_data = Some(style)]
context_aliases(s, style) == [s EXCEPT !.context_aliases = Some(style)]
context_aliases_data(s, style) == [s EXCEPT !.context_aliases_data = Some(style)]
context_default(s, style) == [s EXCEPT !.context_default = Some(style)]
context_default_data(s, style) == [s EXCEPT !.context_default_data = Some(style)]
context_env(s, style) == [s EXCEPT !.context_env = Some(style)]
context_env_data(s, style) == [s EXCEPT !.context_env_data = Some(style)]
context_possible_values(s, style) ==
    [s EXCEPT !.context_possible_values = Some(style)]
context_possible_values_data(s, style) ==
    [s EXCEPT !.context_possible_values_data = Some(style)]

\* The getters.
get_header(s) == s.header
get_error(s) == s.error
get_usage(s) == s.usage
get_literal(s) == s.literal
get_placeholder(s) == s.placeholder
get_valid(s) == s.valid
get_invalid(s) == s.invalid
get_context(s) == s.context

get_context_data(s) ==
    IF s.context_data.some THEN s.context_data.v ELSE s.context

get_context_aliases(s) ==
    IF s.context_aliases.some THEN s.context_aliases.v ELSE s.context

get_context_aliases_data_SkipsContextData(s) ==
    IF s.context_aliases_data.some THEN s.context_aliases_data.v
    ELSE IF s.context_aliases.some THEN s.context_aliases.v
    ELSE s.context

get_context_aliases_data(s) ==
    IF s.context_aliases_data.some THEN s.context_aliases_data.v
    ELSE IF s.context_aliases.some THEN s.context_aliases.v
    ELSE get_context_data(s)

get_context_default(s) ==
    IF s.context_default.some THEN s.context_default.v ELSE s.context

get_context_default_data_DataFirst(s) ==
    IF s.context_default_data.some THEN s.context_default_data.v
    ELSE IF s.context_data.some THEN s.context_data.v
    ELSE IF s.context_default.some THEN s.context_default.v
    ELSE s.context

get_context_default_data(s) ==
    IF s.context_default_data.some THEN s.context_default_data.v
    ELSE IF s.context_default.some THEN s.context_default.v
    ELSE get_context_data(s)

get_context_env(s) ==
    IF s.context_env.some THEN s.context_env.v ELSE s.context

get_context_env_data(s) ==
    IF s.context_env_data.some THEN s.context_env_data.v
    ELSE IF s.context_env.some THEN s.context_env.v
    ELSE get_context_data(s)

get_context_possible_values(s) ==
    IF s.context_possible_values.some THEN s.context_possible_values.v
    ELSE s.context

get_context_possible_values_data(s) ==
    IF s.context_possible_values_data.some THEN s.context_possible_values_data.v
    ELSE IF s.context_possible_values.some THEN s.context_possible_values.v
    ELSE get_context_data(s)

\* The fields a getter reads before it returns, in the order of its matches.
Reads_get_context_data(s) ==
    IF s.context_data.some THEN <<"context_data">>
    ELSE <<"context_data", "context">>

Reads_get_context(x, s) ==
    IF s[x].some THEN <<x>> ELSE <<x, "context">>

Reads_get_context_x_data(x_data, x, s) ==
    IF s[x_data].some THEN <<x_data>>
    ELSE IF s[x].some THEN <<x_data, x>>
    ELSE <<x_data, x>> \o Reads_get_context_data(s)

\* The setter of a slot, by the slot's name.
Setter(slot, s, style) ==
    CASE slot = "header" -> header(s, style)
      [] slot = "error" -> error(s, style)
      [] slot = "usage" -> usage(s, style)
      [] slot = "literal" -> literal(s, style)
      [] slot = "placeholder" -> placeholder(s, style)
      [] slot = "valid" -> valid(s, style)
      [] slot = "invalid" -> invalid(s, style)
      [] slot = "context" -> context(s, style)
      [] slot = "context_data" -> context_data(s, style)
      [] slot = "context_aliases" -> context_aliases(s, style)
      [] slot = "context_aliases_data" -> context_aliases_data(s, style)
      [] slot = "context_default" -> context_default(s, style)
      [] slot = "context_default_data" -> context_default_data(s, style)
      [] slot = "context_env" -> context_env(s, style)
      [] slot = "context_env_data" -> context_env_data(s, style)
      [] slot = "context_possible_values" -> context_possible_values(s, style)
      [] slot = "context_possible_values_data" ->
             context_possible_values_data(s, style)

FixedSlots ==
    {"header", "error", "usage", "literal", "placeholder", "valid", "invalid"}

Contexts ==
    {"context_aliases", "context_default", "context_env", "context_possible_values"}

DataSlot(x) == x \o "_data"

OptionSlots == {"context_data"} \cup Contexts \cup {DataSlot(x) : x \in Contexts}

Slots == FixedSlots \cup {"context"} \cup OptionSlots

\* The styles handed to the setters.
StylePool == {StyleNew, "italic"}

\* One builder call: styles = styles.<slot>(style)
set_style ==
    /\ pc = "styles"
    /\ set_calls < MaxSetterCalls
    /\ \E slot \in Slots, style \in StylePool :
          /\ styles' = Setter(slot, styles, style)
          /\ passed' = [passed EXCEPT ![slot] = Some(style)]
    /\ set_calls' = set_calls + 1
    /\ UNCHANGED <<preset, pc>>
    /\ UNCHANGED <<specValsVars, parser, wrapVars, helpVars, reuseVars>>
    /\ UNCHANGED renderVars
    /\ UNCHANGED layoutVars

----------------------------------------------------------------------------
(* Inputs of a render *)

Pieces ==
    { <<"a">>, <<"}">>, <<"{">>,
      Wrap(t_bin), Wrap(t_version),
      Wrap(<<>>), Wrap(t_question),
      Wrap(<<"f","r","o","b","n","i","c","a","t","e">>),
      Repeat("a", 13), Repeat("a", 15) }

\* One region between two literal bytes, for every recognized tag and for
\* upper-case names.
SingleTagTemplates ==
    {<<"a">> \o Wrap(t) \o <<"}">> :
        t \in RecognizedTags \cup {<<"B","I","N">>, <<"B","i","n">>}}

BareApp ==
    [help_str |-> None, template |-> None, version |-> None, author |-> None,
     about |-> None, long_about |-> None, pre_help |-> None, more_help |-> None,
     has_args |-> FALSE]

\* Texts of the command; `{n}` marks a line break.
AuthorText == <<"m", "e">>
AboutText == <<"a", "b", "{", "n", "}", "c">>
LongAboutText == <<"l", "{", "n", "}", "{", "n", "}", "g">>
PreHelpText == <<"p", "r", "e", "{", "n", "}", "x">>
MoreHelpText == <<"p", "o", "s", "t">>

FullApp ==
    [BareApp EXCEPT !.version = Some("1.0"), !.author = Some(AuthorText),
                    !.about = Some(AboutText), !.long_about = Some(LongAboutText),
                    !.pre_help = Some(PreHelpText), !.more_help = Some(MoreHelpText),
                    !.has_args = TRUE]

Opt(x) == {None, Some(x)}

DefaultApps ==
    [help_str : {None}, template : {None}, version : Opt("1.0"), author : Opt(AuthorText),
     about : Opt(AboutText), long_about : Opt(LongAboutText),
     pre_help : Opt(PreHelpText), more_help : Opt(MoreHelpText), has_args : BOOLEAN]

SingleTagApps ==
    {[a EXCEPT !.template = Some(t)] :
        a \in {BareApp, FullApp}, t \in SingleTagTemplates}

\* An app whose template is made of at most MaxSegs pieces.
IsPieceApp(a) ==
    \E n \in 0..MaxSegs : \E ss \in [1..n -> Pieces] :
        a = [FullApp EXCEPT !.template = Some(Flatten(ss))]

LiteralApps ==
    {[a EXCEPT !.help_str = Some(h), !.template = t] :
        a \in {BareApp, FullApp},
        h \in {<<"h">>, Wrap(t_bin), <<>>},
        t \in {None, Some(Wrap(t_bin))}}

Apps == LiteralApps \cup SingleTagApps \cup DefaultApps

\* The calls at which the sink may fail: any call of the default layout
\* (its flush included), one of the first MaxFailAt calls otherwise.
FailPoints(a) ==
    IF a \in DefaultApps THEN 0..(Len(DefaultCalls(a)) + 1) ELSE 0..MaxFailAt

LayoutIdle ==
    /\ args = <<>>
    /\ pass = "none"
    /\ next_line_help = FALSE
    /\ term_w = 120
    /\ use_long = FALSE
    /\ longest = 0
    /\ force_next_line = FALSE
    /\ arg_v = <<>>
    /\ cur = 0
    /\ placed = <<>>

Init ==
    /\ LayoutIdle
    /\ app \in Apps \/ IsPieceApp(app)
    /\ fail_at \in FailPoints(app)
    /\ writer = NewSink
    /\ tmplr = NewCursor(<<>>)
    /\ tag_buf = [kind |-> "cursor", buf |-> <<>>, pos |-> 0]
    /\ pc = "write_help"
    /\ mode = "none"
    /\ result = Running
    /\ OtherIdle

Next == write_help \/ write_templated_help

Spec == Init /\ [][Next]_vars

\* Templates of literal bytes, lone braces, an empty tag, a recognized tag
\* and an opening brace followed by more bytes than the tag buffer holds.
LivePieces ==
    { <<"a">>, <<"{">>, Wrap(<<>>), Wrap(t_bin),
      <<"{">> \o Repeat("a", TagBufLen + 1) }

IsLiveApp(a) ==
    \E n \in 0..MaxSegs : \E ss \in [1..n -> LivePieces] :
        a = [FullApp EXCEPT !.template = Some(Flatten(ss))]

\* A templated render on a sink that accepts every write, or fails the first.
InitLive ==
    /\ LayoutIdle
    /\ IsLiveApp(app)
    /\ fail_at \in {0, 1}
    /\ writer = NewSink
    /\ tmplr = NewCursor(<<>>)
    /\ tag_buf = [kind |-> "cursor", buf |-> <<>>, pos |-> 0]
    /\ pc = "write_help"
    /\ mode = "none"
    /\ result = Running
    /\ OtherIdle

\* The loop of write_templated_help has an iteration to run at every state
\* inside it: the action is defined for every result of copy_and_capture.
LoopEnabled == pc = "write_templated_help"

\* Weak fairness of the loop iteration, WF_vars(write_templated_help), with
\* its enabling condition written as the state predicate LoopEnabled.
LoopFairness == []<>(~LoopEnabled) \/ []<><<write_templated_help>>_vars

\* The render is one sequential call: while a step is left, it is taken.
SpecLive ==
    InitLive /\ [][Next]_vars /\ WF_vars(write_help) /\ LoopFairness

----------------------------------------------------------------------------
(* Inputs of a layout pass *)

MaxArgs == 2        \* items per pass

TermWidths == {32, 80}
LabelWidths == {20, 21}
NameWidths == {1, 20, 21}
HelpWidths == {<<40, 0>>, <<41, 19>>}

Visibility ==
    {[hidden |-> h, hidden_long_help |-> hl, hidden_short_help |-> hs, next_line_help |-> n] :
        <<h, hl, hs, n>> \in {<<FALSE, FALSE, FALSE, FALSE>>, <<TRUE, FALSE, FALSE, FALSE>>,
                              <<FALSE, TRUE, FALSE, FALSE>>, <<FALSE, FALSE, TRUE, FALSE>>,
                              <<FALSE, FALSE, FALSE, TRUE>>, <<FALSE, TRUE, TRUE, TRUE>>}}

Item(n, vis, w, hw, sw, lg) ==
    [name |-> n, disp_ord |-> 999, hidden |-> vis.hidden,
     hidden_long_help |-> vis.hidden_long_help,
     hidden_short_help |-> vis.hidden_short_help,
     next_line_help |-> vis.next_line_help,
     width |-> w, label_w |-> w, help_w |-> hw[1], spec_w |-> hw[2],
     has_switch |-> sw, long |-> lg]

\* Groups of at most MaxArgs items of one form, named in declaration order.
Groups(pool) ==
    UNION {{[i \in 1..n |-> [g[i] EXCEPT !.name = i]] : g \in [1..n -> pool]} : n \in 0..MaxArgs}

ArgPool(sw, lg) ==
    {Item(0, vis, w, hw, sw, lg) : vis \in Visibility, w \in LabelWidths, hw \in HelpWidths}

SubcommandPool ==
    {Item(0, vis, w, hw, FALSE, FALSE) :
        vis \in {v \in Visibility : ~v.hidden_long_help /\ ~v.hidden_short_help
                                      /\ ~v.next_line_help},
        w \in NameWidths, hw \in HelpWidths}

Passes ==
    {<<"write_args", g>> : g \in Groups(ArgPool(TRUE, TRUE))}
    \cup {<<"write_args", g>> : g \in Groups(ArgPool(TRUE, FALSE))}
    \cup {<<"write_args_unsorted", g>> : g \in Groups(ArgPool(FALSE, FALSE))}
    \cup {<<"write_subcommands", g>> : g \in Groups(SubcommandPool)}

RenderIdle ==
    /\ app = BareApp
    /\ fail_at = 0
    /\ writer = NewSink
    /\ tmplr = NewCursor(<<>>)
    /\ tag_buf = [kind |-> "cursor", buf |-> <<>>, pos |-> 0]
    /\ mode = "none"
    /\ result = Running

InitLayout ==
    /\ RenderIdle
    /\ OtherIdle
    /\ \E p \in Passes : pass = p[1] /\ args = p[2]
    /\ next_line_help \in BOOLEAN
    /\ term_w \in TermWidths
    /\ use_long \in BOOLEAN
    /\ longest = 0
    /\ force_next_line = FALSE
    /\ arg_v = <<>>
    /\ cur = 0
    /\ placed = <<>>
    /\ pc = "pass"

NextLayout ==
    \/ write_args
    \/ write_args_unsorted
    \/ write_subcommands
    \/ write_arg
    \/ write_subcommand

SpecLayout == InitLayout /\ [][NextLayout]_vars

----------------------------------------------------------------------------
(* Inputs of a layout pass: display order and names *)

OrderNames == 1..(MaxArgs + 1)
DispOrds == {1, 2}

DistinctNames(g) == \A i, j \in 1..Len(g) : g[i].name = g[j].name => i = j

OrderPool(sw, lg) ==
    {[Item(n, vis, 20, <<40, 0>>, sw, lg) EXCEPT !.disp_ord = d] :
        n \in OrderNames, d \in DispOrds,
        vis \in {v \in Visibility : ~v.hidden_long_help /\ ~v.hidden_short_help
                                      /\ ~v.next_line_help}}

\* Collections of at most MaxArgs items with distinct names, in any
\* declaration order.
OrderGroups(pool) ==
    {g \in UNION {[1..n -> pool] : n \in 0..MaxArgs} : DistinctNames(g)}

OrderPasses ==
    {<<"write_args", g>> : g \in OrderGroups(OrderPool(TRUE, TRUE))}
    \cup {<<"write_args_unsorted", g>> : g \in OrderGroups(OrderPool(FALSE, FALSE))}
    \cup {<<"write_subcommands", g>> : g \in OrderGroups(OrderPool(FALSE, FALSE))}

InitOrder ==
    /\ RenderIdle
    /\ OtherIdle
    /\ \E p \in OrderPasses : pass = p[1] /\ args = p[2]
    /\ next_line_help = FALSE
    /\ term_w = 80
    /\ use_long \in BOOLEAN
    /\ longest = 0
    /\ force_next_line = FALSE
    /\ arg_v = <<>>
    /\ cur = 0
    /\ placed = <<>>
    /\ pc = "pass"

SpecOrder == InitOrder /\ [][NextLayout]_vars

----------------------------------------------------------------------------
(* Inputs of a layout pass on a Help value that ran a pass before *)

ReuseVisibility ==
    {v \in Visibility : ~v.hidden_long_help /\ ~v.hidden_short_help}

ReusePool(sw, lg) ==
    {Item(0, vis, w, hw, sw, lg) :
        vis \in ReuseVisibility, w \in {5, 20}, hw \in {<<10, 0>>, <<40, 0>>}}

ReuseSubcommandPool ==
    {it \in ReusePool(FALSE, FALSE) : ~it.next_line_help}

ReusePasses ==
    {<<"write_args", g>> : g \in Groups(ReusePool(TRUE, TRUE))}
    \cup {<<"write_args_unsorted", g>> : g \in Groups(ReusePool(FALSE, FALSE))}
    \cup {<<"write_subcommands", g>> : g \in Groups(ReuseSubcommandPool)}

\* self.longest after the pass before: what Help::new sets, or what a
\* measurement loop gives on a group of the pool.
PriorLongest == {0, 2, 5, 20}

InitReuse ==
    /\ RenderIdle
    /\ SpecValsIdle
    /\ parser = <<>>
    /\ WrapIdle
    /\ HelpIdle
    /\ StylesIdle
    /\ \E p \in ReusePasses : pass = p[1] /\ args = p[2]
    /\ next_line_help \in BOOLEAN
    /\ term_w = 32
    /\ use_long \in BOOLEAN
    /\ prior \in [longest : PriorLongest, force_next_line : BOOLEAN]
    /\ longest = prior.longest
    /\ force_next_line = prior.force_next_line
    /\ arg_v = <<>>
    /\ cur = 0
    /\ placed = <<>>
    /\ pc = "pass"

SpecReuse == InitReuse /\ [][NextLayout]_vars

----------------------------------------------------------------------------
(* Inputs of spec_vals *)

MaxVals == 2        \* aliases, and possible values, per argument

AliasPool == {<<"f", TRUE>>, <<"g", TRUE>>, <<"f", FALSE>>}
ValuePool == {"x", "y"}

\* Non-empty lists of at most MaxVals elements of pool.
Lists(pool) == UNION {[1..n -> pool] : n \in 1..MaxVals}

SpecValsArgs ==
    [env : {None, Some(<<"FOO", None>>), Some(<<"FOO", Some("bar")>>)},
     hide_env_values : BOOLEAN,
     hide_default_value : BOOLEAN,
     default_val : Opt("baz"),
     aliases : {None} \cup {Some(l) : l \in Lists(AliasPool)},
     hide_possible_values : BOOLEAN,
     possible_vals : {None} \cup {Some(l) : l \in Lists(ValuePool)}]

InitSpecVals ==
    /\ RenderIdle
    /\ LayoutIdle
    /\ sv_arg \in SpecValsArgs
    /\ hide_pv \in BOOLEAN
    /\ color \in BOOLEAN
    /\ sv = [spec_vals |-> <<>>, ret |-> ""]
    /\ parser = <<>>
    /\ WrapIdle
    /\ HelpIdle
    /\ StylesIdle
    /\ ReuseIdle
    /\ pc = "spec_vals"

NextSpecVals == spec_vals

SpecSpecVals == InitSpecVals /\ [][NextSpecVals]_vars

----------------------------------------------------------------------------
(* Inputs of write_all_args *)

MaxHeadings == 2    \* declared help headings, and arguments under a heading

HeadingNames == {"NETWORK", "LOGGING"}

UpTo(n, pool) == UNION {[1..k -> pool] : k \in 0..n}

Positional(vis) == Item(0, vis, 20, <<40, 0>>, FALSE, FALSE)

\* Every argument under a heading names a declared heading.
HeadingsDeclared(prs) ==
    \A i \in 1..Len(prs.custom_headings) :
        \E j \in 1..Len(prs.help_headings) :
            prs.help_headings[j] = prs.custom_headings[i].help_heading

Parsers ==
    {prs \in [has_flags : BOOLEAN,
              has_opts : BOOLEAN,
              has_visible_subcommands : BOOLEAN,
              unified_help : BOOLEAN,
              positionals : UpTo(1, {Positional(vis) :
                                vis \in {v \in Visibility : ~v.hidden_long_help
                                            /\ ~v.hidden_short_help /\ ~v.next_line_help}}),
              help_headings : UpTo(MaxHeadings, {None} \cup {Some(hd) : hd \in HeadingNames}),
              custom_headings : UpTo(MaxHeadings, {[help_heading |-> Some(hd)] : hd \in HeadingNames})] :
        HeadingsDeclared(prs)}

InitSections ==
    /\ app = BareApp
    /\ fail_at \in 0..MaxFailAt
    /\ writer = NewSink
    /\ tmplr = NewCursor(<<>>)
    /\ tag_buf = [kind |-> "cursor", buf |-> <<>>, pos |-> 0]
    /\ mode = "none"
    /\ result = Running
    /\ LayoutIdle
    /\ sv_arg = <<>>
    /\ hide_pv = FALSE
    /\ color \in BOOLEAN
    /\ sv = [spec_vals |-> <<>>, ret |-> ""]
    /\ parser \in Parsers
    /\ WrapIdle
    /\ HelpIdle
    /\ StylesIdle
    /\ ReuseIdle
    /\ pc = "write_all_args"

NextSections == write_all_args

SpecSections == InitSections /\ [][NextSections]_vars

----------------------------------------------------------------------------
(* Inputs of write_default_help on a parser *)

\* Parsers without help headings; visible subcommands are subcommands.
DefaultParsers ==
    {prs \in [has_flags : BOOLEAN,
              has_opts : BOOLEAN,
              has_subcommands : BOOLEAN,
              has_visible_subcommands : BOOLEAN,
              unified_help : BOOLEAN,
              positionals : UpTo(MaxArgs, {Positional(vis) :
                                vis \in {v \in Visibility : ~v.hidden_long_help
                                            /\ ~v.hidden_short_help /\ ~v.next_line_help}}),
              help_headings : {<<>>},
              custom_headings : {<<>>}] :
        prs.has_visible_subcommands => prs.has_subcommands}

InitDefault ==
    /\ parser \in DefaultParsers
    /\ \E m \in Opt(MoreHelpText) :
          app = [BareApp EXCEPT !.more_help = m, !.has_args = AnyArgs(parser)]
    /\ fail_at \in 0..MaxFailAt
    /\ writer = NewSink
    /\ tmplr = NewCursor(<<>>)
    /\ tag_buf = [kind |-> "cursor", buf |-> <<>>, pos |-> 0]
    /\ mode = "default"
    /\ result = Running
    /\ LayoutIdle
    /\ sv_arg = <<>>
    /\ hide_pv = FALSE
    /\ color \in BOOLEAN
    /\ sv = [spec_vals |-> <<>>, ret |-> ""]
    /\ WrapIdle
    /\ HelpIdle
    /\ StylesIdle
    /\ prior = <<>>
    /\ pc = "write_default_help"

NextDefault == write_default_help_sections

SpecDefault == InitDefault /\ [][NextDefault]_vars

----------------------------------------------------------------------------
(* Inputs of wrap_help *)

MaxPieces == 5      \* words and separators per text

Words == {<<"a">>, <<"f", "o", "o">>, <<"l", "o", "n", "g", "e", "s", "t">>}
Separators == {<<" ">>, <<"\n">>}
WrapWidths == {0, 3, 5, 7}

\* No line starts or ends with a space and no two spaces are adjacent.
SingleSpaced(str) ==
    \A i \in 1..Len(str) :
        str[i] = " " => /\ i > 1 /\ i < Len(str)
                        /\ str[i - 1] \notin {" ", "\n"}
                        /\ str[i + 1] \notin {" ", "\n"}

InitWrap ==
    /\ RenderIdle
    /\ LayoutIdle
    /\ SpecValsIdle
    /\ parser = <<>>
    /\ \E n \in 0..MaxPieces : \E ps \in [1..n -> Words \cup Separators] :
          /\ SingleSpaced(Flatten(ps))
          /\ \E w \in WrapWidths : wrap_in = [help |-> Flatten(ps), avail_chars |-> w]
    /\ wrapped = <<>>
    /\ HelpIdle
    /\ StylesIdle
    /\ ReuseIdle
    /\ pc = "wrap_help"

NextWrap == wrap_help_call

SpecWrap == InitWrap /\ [][NextWrap]_vars

----------------------------------------------------------------------------
(* Inputs of write_arg on texts *)

MaxHelpPieces == 3  \* words, separators and markers per help text

Marker == <<"{", "n", "}">>

InitHelpText ==
    /\ RenderIdle
    /\ SpecValsIdle
    /\ parser = <<>>
    /\ WrapIdle
    /\ args = <<>>
    /\ pass = "none"
    /\ arg_v = <<>>
    /\ cur = 0
    /\ placed = <<>>
    /\ next_line_help \in BOOLEAN
    /\ use_long \in BOOLEAN
    /\ term_w \in {10, 30}
    /\ longest \in {2, 20}
    /\ force_next_line = FALSE
    /\ \E n \in 0..MaxHelpPieces :
          \E ps \in [1..n -> Words \cup Separators \cup {Marker}] :
             /\ SingleSpaced(ReplaceN(Flatten(ps)))
             /\ \E hp \in {None, Some(Flatten(ps))},
                   lh \in {None, Some(<<"l", "{", "n", "}", "g">>)},
                   nlh \in BOOLEAN,
                   form \in {<<TRUE, FALSE>>, <<FALSE, FALSE>>, <<FALSE, TRUE>>},
                   specv \in {<<>>, <<" ", "[", "d", "]">>} :
                  h_arg = [arg |-> [help |-> hp, long_help |-> lh,
                                    next_line_help |-> nlh, has_switch |-> form[1]],
                           spec_vals |-> specv,
                           prevent_nlh |-> form[2]]
    /\ h_out = <<>>
    /\ StylesIdle
    /\ ReuseIdle
    /\ pc = "write_arg_help"

NextHelpText == write_arg_help

SpecHelpText == InitHelpText /\ [][NextHelpText]_vars

----------------------------------------------------------------------------
(* Inputs of the Styles builder *)

InitStyles ==
    /\ RenderIdle
    /\ LayoutIdle
    /\ SpecValsIdle
    /\ parser = <<>>
    /\ WrapIdle
    /\ HelpIdle
    /\ ReuseIdle
    /\ preset \in {plain, styled}
    /\ styles = preset
    /\ passed = [slot \in Slots |-> None]
    /\ set_calls = 0
    /\ pc = "styles"

NextStyles == set_style

SpecStyles == InitStyles /\ [][NextStyles]_vars

----------------------------------------------------------------------------
(* Properties of the template scanner *)

out == writer.out
tmpl == app.template.v

NoByte(b, t) == \A i \in 1..Len(t) : t[i] # b
Drop(t, n) == SubSeq(t, n + 1, Len(t))

\* The recognized tag occurrence `{name}` that t starts with, if any.
TagsAt(t) == {n \in RecognizedTags : IsPrefix(Wrap(n), t)}
TagAt(t) == CHOOSE n \in TagsAt(t) : TRUE

\* t is made of bytes other than '{' and of recognized tag occurrences.
RECURSIVE WellFormed(_)
WellFormed(t) ==
    \/ t = <<>>
    \/ Head(t) # "{" /\ WellFormed(Tail(t))
    \/ TagsAt(t) # {} /\ WellFormed(Drop(t, Len(TagAt(t)) + 2))

\* As WellFormed, and a stray '{' may stand directly before a tag occurrence.
RECURSIVE WellFormedOrStray(_)
WellFormedOrStray(t) ==
    \/ t = <<>>
    \/ Head(t) # "{" /\ WellFormedOrStray(Tail(t))
    \/ TagsAt(t) # {} /\ WellFormedOrStray(Drop(t, Len(TagAt(t)) + 2))
    \/ Head(t) = "{" /\ TagsAt(Tail(t)) # {} /\ WellFormedOrStray(Tail(t))

\* Literal bytes in place, each recognized tag occurrence replaced by what
\* its arm writes.
RECURSIVE Expected(_, _)
Expected(a, t) ==
    IF t = <<>> THEN <<>>
    ELSE IF TagsAt(t) # {}
         THEN Flatten(TagArm(a, TagAt(t))) \o Expected(a, Drop(t, Len(TagAt(t)) + 2))
         ELSE <<Head(t)>> \o Expected(a, Tail(t))

TemplateDone == mode = "template" /\ pc = "done" /\ ~writer.failed

\* C1 (as stated): literal bytes are copied in order and every recognized
\* tag is replaced by its content, also directly after a stray '{'.
C1_AsStated ==
    TemplateDone /\ WellFormedOrStray(tmpl)
        => result = Ok /\ out = Expected(app, tmpl)

\* C1 (amended): for a template made of bytes other than '{' and of
\* well-formed recognized tags, the output is the literal bytes in order
\* with every tag replaced, at its position, by its dispatched content.
C1_RoundTrip ==
    TemplateDone /\ WellFormed(tmpl)
        => result = Ok /\ out = Expected(app, tmpl)

C1_Witness ==
    /\ TemplateDone
    /\ tmpl = <<"}">> \o Wrap(t_version) \o Wrap(t_bin)
    /\ app.version.some
    /\ out = <<"}", "1.0", "<bin>">>

\* t is made of bytes other than '{' and of regions `{name}` whose name has
\* no brace and is not a recognized tag.
RECURSIVE OnlyUnknownRegions(_)
OnlyUnknownRegions(t) ==
    \/ t = <<>>
    \/ Head(t) # "{" /\ OnlyUnknownRegions(Tail(t))
    \/ /\ Head(t) = "{"
       /\ \E k \in 2..Len(t) :
            /\ t[k] = "}"
            /\ NoByte("}", SubSeq(t, 2, k - 1))
            /\ NoByte("{", SubSeq(t, 2, k - 1))
            /\ SubSeq(t, 2, k - 1) \notin RecognizedTags
            /\ OnlyUnknownRegions(Drop(t, k))

\* C2: every region `{name}` whose name is not a recognized tag (the empty
\* name, `?`, upper case and oversized names included) is output unchanged.
C2_UnknownEchoed ==
    TemplateDone /\ OnlyUnknownRegions(tmpl) => result = Ok /\ out = tmpl

\* The first '{' of t is followed by 1 to 14 bytes, none of them '}', and
\* then the input ends.
Unterminated(t) ==
    \E k \in 1..Len(t) :
        /\ t[k] = "{"
        /\ NoByte("{", SubSeq(t, 1, k - 1))
        /\ Len(t) - k >= 1
        /\ Len(t) - k < 15
        /\ NoByte("}", Drop(t, k))

\* C3: after '{' and 1 to 14 bytes without '}' up to the end of input, the
\* output equals the template and the render returns Ok.
C3_UnterminatedVerbatim ==
    TemplateDone /\ Unterminated(tmpl) => result = Ok /\ out = tmpl

C3_Witness ==
    /\ TemplateDone
    /\ tmpl = <<"a", "{">> \o Repeat("a", 13)
    /\ out = tmpl
    /\ result = Ok

\* Position of the first '{' of t when 15 bytes without '}' follow it and
\* the input after those 15 bytes is well formed.
OversizedAt(t) ==
    {k \in 1..Len(t) :
        /\ t[k] = "{"
        /\ NoByte("{", SubSeq(t, 1, k - 1))
        /\ Len(t) >= k + 15
        /\ NoByte("}", SubSeq(t, k + 1, k + 15))
        /\ WellFormed(Drop(t, k + 15))}

\* C4: after '{' and 15 bytes without '}', the brace and those 15 bytes are
\* output as literal text and scanning resumes right after them: the rest
\* of the template is rendered as it would be on its own, its tags expanded.
C4_OversizedResumes ==
    TemplateDone =>
        \A k \in OversizedAt(tmpl) :
            /\ result = Ok
            /\ out = SubSeq(tmpl, 1, k + 15) \o Expected(app, Drop(tmpl, k + 15))

C4_Witness ==
    /\ TemplateDone
    /\ tmpl = <<"{">> \o Repeat("a", 15) \o Wrap(t_bin)
    /\ out = <<"{">> \o Repeat("a", 15) \o <<"<bin>">>
    /\ result = Ok

\* C5: a template ending in a '{' that opens a capture renders to the
\* preceding text followed by that '{'.
C5_TrailingBraceKept ==
    TemplateDone /\ tmpl # <<>> /\ tmpl[Len(tmpl)] = "{"
                 /\ WellFormed(SubSeq(tmpl, 1, Len(tmpl) - 1))
        => /\ result = Ok
           /\ out = Expected(app, SubSeq(tmpl, 1, Len(tmpl) - 1)) \o <<"{">>

----------------------------------------------------------------------------
(* Properties of write_help *)

SelectedMode ==
    IF app.help_str.some THEN "help_str"
    ELSE IF app.template.some THEN "template" ELSE "default"

\* C6: write_help runs exactly one mode, chosen in the order literal help
\* string, template, default layout; the literal string is output as is.
C6_ModePriority ==
    /\ mode # "none" => mode = SelectedMode
    /\ pc = "write_templated_help" => mode = "template"
    /\ mode = "help_str" /\ ~writer.failed => out = app.help_str.v
    /\ mode = "help_str" => tmplr.pos = 0 /\ pc = "done"
    /\ mode = "template" => \A i \in 1..Len(out) : out[i] # "\nUSAGE:"
    /\ mode = "default" /\ ~writer.failed => out = Flatten(DefaultCalls(app))

C6_Witness ==
    /\ mode = "help_str"
    /\ app.template = Some(Wrap(t_bin))
    /\ out = Wrap(t_bin)
    /\ result = Ok

\* C7: the first failing write or flush ends the render: the error is
\* returned, the sink receives no further call, and what it accepted
\* before stays written.
C7_FirstErrorAborts ==
    [][ /\ IsPrefix(writer.out, writer'.out)
        /\ writer.failed => writer' = writer
        /\ writer'.failed =>
              /\ writer'.calls = fail_at
              /\ pc' = "done"
              /\ result' = Err(ErrorFrom(IoError(fail_at)))
        /\ result'.tag = "Err" => writer'.failed ]_vars

C7_Witness ==
    /\ writer.failed
    /\ mode = "template"
    /\ writer.calls >= 3
    /\ Len(out) >= 2
    /\ result.tag = "Err"


----------------------------------------------------------------------------
(* Properties of the layout passes *)

SetMax(S) == CHOOSE m \in S : \A x \in S : x <= m

\* Shown in the current mode, not hidden and not marked next-line-help.
VisibleMeasured(a) ==
    /\ ~a.hidden
    /\ ~a.next_line_help
    /\ \/ ~a.hidden_long_help /\ use_long
       \/ ~a.hidden_short_help /\ ~use_long

Measured == pc \in {"items", "done"}

\* C8: after the measurement pass of write_args / write_args_unsorted,
\* longest is the largest of 2 and the label widths of the visible measured
\* items; hidden items and next-line-help items do not count.
C8_LongestIsMax ==
    Measured /\ pass \in {"write_args", "write_args_unsorted"}
        => longest = SetMax({2} \cup {args[i].width : i \in
                                {j \in 1..Len(args) : VisibleMeasured(args[j])}})

C8_Witness ==
    /\ Measured
    /\ pass = "write_args"
    /\ Len(args) = 2
    /\ args[1].width = 21 /\ (args[1].hidden \/ args[1].next_line_help)
    /\ args[2].width = 20 /\ VisibleMeasured(args[2])
    /\ longest = 20

Rendered == cur >= 1
Last == arg_v[cur]
HelpWidth(it) == it.help_w + it.spec_w

\* C9: for every item and every subcommand, force_next_line is true exactly
\* when next-line-help is forced neither by configuration nor by the item,
\* term_w >= taken, taken / term_w > 0.40 and help_width > term_w - taken,
\* with taken = longest + 12.
C9_ForceNextLineRule ==
    Rendered =>
        LET taken == longest + 12
        IN  force_next_line <=>
                /\ ~next_line_help
                /\ ~Last.next_line_help
                /\ term_w >= taken
                /\ 100 * taken > 40 * term_w
                /\ HelpWidth(Last) > term_w - taken

C9_Witness ==
    /\ Rendered
    /\ pass = "write_subcommands"
    /\ force_next_line
    /\ term_w = 80
    /\ longest = 21
    /\ HelpWidth(Last) = 60

PlainItem == ~next_line_help /\ ~Last.next_line_help /\ ~use_long

\* C10 (as stated): at terminal width 80 and longest = 20, help of width 60
\* is forced onto the next line and help of width 40 stays on the label's line.
C10_AsStated ==
    Rendered /\ PlainItem /\ term_w = 80 /\ longest = 20
        => /\ HelpWidth(Last) = 60 => force_next_line /\ placed[cur].newline
           /\ HelpWidth(Last) = 40 => ~placed[cur].newline

\* C10 (amended): at terminal width 80 and longest = 20 the ratio is exactly
\* 0.40, not above it, and help of width 60 and of width 40 both stay on the
\* label's line; at longest = 21 (taken = 33) help of width 60 is forced
\* onto the next line and help of width 40 is not.
C10_Threshold ==
    Rendered /\ PlainItem /\ term_w = 80
        => /\ longest = 20 => ~force_next_line /\ ~placed[cur].newline
           /\ longest = 21 =>
                /\ force_next_line <=> HelpWidth(Last) = 60
                /\ placed[cur].newline <=> HelpWidth(Last) = 60

C10_Witness ==
    /\ Rendered /\ PlainItem
    /\ term_w = 80
    /\ longest = 20
    /\ HelpWidth(Last) = 60
    /\ ~force_next_line
    /\ ~placed[cur].newline
    /\ placed[cur].pad # NoPad

----------------------------------------------------------------------------
(* Properties of spec_vals *)

SpecValsDone == pc = "done" /\ sv_arg # <<>>

\* env FOO=bar (not hidden), default baz, visible aliases f and g, possible
\* values x and y, nothing hidden, colour disabled.
OrderingScenario ==
    /\ sv_arg = [env |-> Some(<<"FOO", Some("bar")>>),
                 hide_env_values |-> FALSE,
                 hide_default_value |-> FALSE,
                 default_val |-> Some("baz"),
                 aliases |-> Some(<< <<"f", TRUE>>, <<"g", TRUE>> >>),
                 hide_possible_values |-> FALSE,
                 possible_vals |-> Some(<<"x", "y">>)]
    /\ ~hide_pv
    /\ ~color

\* C11: in the ordering scenario the annotations come in the order env,
\* default, aliases, possible values, separated by exactly one space: the
\* string is `[env: FOO=bar] [default: baz] [aliases: f, g] [possible values: x, y]`.
C11_SpecValsExact ==
    SpecValsDone /\ OrderingScenario
        => sv.ret = "[env: FOO=bar] [default: baz] [aliases: f, g] [possible values: x, y]"

\* What spec_vals returns in the ordering scenario: each annotation carries
\* its own leading space and the join adds another one.
C11_Observed ==
    SpecValsDone /\ OrderingScenario
        => sv.ret = " [env: FOO=bar]  [default: baz]  [aliases: f, g]  [possible values: x, y]"

PossibleValsAnnotations ==
    {PossibleValsInfo(c, [possible_vals |-> Some(l)]) :
        c \in BOOLEAN, l \in Lists(ValuePool)}

IsPossibleValsAnnotation(str) == str \in PossibleValsAnnotations
IsOtherAnnotation(str) == str \notin PossibleValsAnnotations

\* C12: the possible-values annotation is present exactly when the argument
\* declares possible values, the global hide flag is off and the argument's
\* own hide flag is off; the env, default and aliases annotations are those
\* of the same argument rendered with neither flag set.
C12_PossibleValsHiding ==
    SpecValsDone =>
        /\ (\E i \in 1..Len(sv.spec_vals) : IsPossibleValsAnnotation(sv.spec_vals[i]))
              <=> /\ sv_arg.possible_vals.some
                  /\ ~hide_pv
                  /\ ~sv_arg.hide_possible_values
        /\ SelectSeq(sv.spec_vals, IsOtherAnnotation)
              = SelectSeq(SpecValsVec(FALSE, color,
                                      [sv_arg EXCEPT !.hide_possible_values = FALSE]),
                          IsOtherAnnotation)
        /\ Len(SelectSeq(sv.spec_vals, IsOtherAnnotation))
              = (IF sv_arg.env.some THEN 1 ELSE 0)
                + (IF sv_arg.default_val.some /\ ~sv_arg.hide_default_value THEN 1 ELSE 0)
                + (IF sv_arg.aliases.some
                      /\ \E i \in 1..Len(sv_arg.aliases.v) : sv_arg.aliases.v[i][2]
                   THEN 1 ELSE 0)

C12_Witness ==
    /\ SpecValsDone
    /\ sv_arg.possible_vals = Some(<<"x", "y">>)
    /\ sv_arg.hide_possible_values
    /\ ~hide_pv
    /\ sv_arg.env.some /\ sv_arg.default_val.some /\ ~sv_arg.hide_default_value
    /\ Len(sv.spec_vals) = 2

----------------------------------------------------------------------------
(* Properties of the render order *)

PassDone == pc = "done" /\ pass # "none"

Shown(it) == IF pass = "write_subcommands" THEN ShowSubcommand(it) ELSE ShowArg(it)

PlacedNames == [i \in 1..Len(placed) |-> placed[i].name]

\* The names of the shown items of s, by ascending display order and, within
\* one display order, by ascending name.
RECURSIVE SortedNames(_)
SortedNames(S) ==
    IF S = {} THEN <<>>
    ELSE LET first == CHOOSE x \in S : \A y \in S :
                          \/ x.disp_ord < y.disp_ord
                          \/ x.disp_ord = y.disp_ord /\ x.name <= y.name
         IN  <<first.name>> \o SortedNames(S \ {first})

ShownSet == {args[i] : i \in {j \in 1..Len(args) : Shown(args[j])}}

ArgPermutations(n) == {f \in [1..n -> 1..n] : \A i, j \in 1..n : f[i] = f[j] => i = j}
Permuted(s, f) == [i \in 1..Len(s) |-> s[f[i]]]

DeclaredNames ==
    LET shown == SelectSeq(args, Shown)
    IN  [i \in 1..Len(shown) |-> shown[i].name]

\* C13 (as stated): in every section (write_args, write_subcommands and the
\* positional section written by write_args_unsorted) the items are rendered
\* by ascending display order and, within one display order, by ascending
\* name, whatever the order of the input collection.
C13_SortedEverySection ==
    PassDone => PlacedNames = SortedNames(ShownSet)

\* C13 (amended): the sections written by write_args and write_subcommands
\* render the shown items by ascending display order and, within one display
\* order, by ascending name, and every permutation of the input collection
\* gives the same order; the positional section (write_args_unsorted)
\* renders the shown items in their declaration order.
C13_Order ==
    PassDone =>
        /\ pass \in {"write_args", "write_subcommands"} =>
              /\ PlacedNames = SortedNames(ShownSet)
              /\ \A f \in ArgPermutations(Len(args)) :
                    OrdMap(SelectSeq(Permuted(args, f), Shown)) = arg_v
        /\ pass = "write_args_unsorted" => PlacedNames = DeclaredNames

C13_Witness ==
    /\ PassDone
    /\ pass = "write_args"
    /\ Len(args) = 2
    /\ args[1].name = 1 /\ args[1].disp_ord = 2 /\ Shown(args[1])
    /\ args[2].name = 2 /\ args[2].disp_ord = 1 /\ Shown(args[2])
    /\ PlacedNames = <<2, 1>>

----------------------------------------------------------------------------
(* Properties of write_all_args *)

SectionsDone == pc = "done" /\ parser # <<>> /\ ~writer.failed

Header(name) == Warning(color, name \o ":\n")
FixedHeaders == {Header(name) : name \in {"ARGS", "FLAGS", "OPTIONS", "SUBCOMMANDS"}}
CustomHeaders == {Header(name) : name \in HeadingNames}
IsHeader(tok) == tok \in FixedHeaders \cup CustomHeaders
IsCustomHeader(tok) == tok \in CustomHeaders
IsFixedHeader(tok) == tok \in FixedHeaders

\* The headers written, in output order.
Headers == SelectSeq(out, IsHeader)

DeclaredHeadings == SelectSeq(parser.help_headings, IsSome)

\* The headings that at least one argument is filed under.
HeadingsWithArgs ==
    {parser.custom_headings[i].help_heading.v : i \in 1..Len(parser.custom_headings)}

PositionalsShown ==
    \E i \in 1..Len(parser.positionals) : should_show_arg(use_long, parser.positionals[i])

UnifiedSection == parser.unified_help /\ (parser.has_flags \/ parser.has_opts)

\* The headers of the fixed sections in the fixed order, the custom headings
\* (hs) between the flags/options sections and the subcommands.
HeadersInOrder(hs) ==
    (IF PositionalsShown THEN <<Header("ARGS")>> ELSE <<>>)
    \o (IF UnifiedSection THEN <<Header("OPTIONS")>>
        ELSE (IF parser.has_flags THEN <<Header("FLAGS")>> ELSE <<>>)
             \o (IF parser.has_opts THEN <<Header("OPTIONS")>> ELSE <<>>))
    \o hs
    \o (IF parser.has_visible_subcommands THEN <<Header("SUBCOMMANDS")>> ELSE <<>>)

\* The headers of a selection K of the declared headings, in declaration order.
HeadingHeaders(K) ==
    LET picked == SelectSeq([i \in 1..Len(DeclaredHeadings) |-> <<i, DeclaredHeadings[i].v>>],
                            LAMBDA e : e[1] \in K)
    IN  [i \in 1..Len(picked) |-> Header(picked[i][2])]

\* Sections follow one another separated by one "\n\n", and nothing else is
\* written: each section is its header and its body.
BlankLineSeparated ==
    /\ Len(out) > 0 => IsHeader(out[1])
    /\ \A i \in 1..Len(out) :
          /\ IsHeader(out[i]) /\ i > 1 => out[i - 1] = "\n\n"
          /\ out[i] = "\n\n" => i < Len(out) /\ IsHeader(out[i + 1]) /\ i > 1
          /\ IsHeader(out[i]) => i < Len(out) /\ ~IsHeader(out[i + 1]) /\ out[i + 1] # "\n\n"

\* C14: the sections come in the order positional arguments, flags and
\* options (one unified section or two), the custom-heading groups in
\* declaration order, subcommands; every custom-heading group that has
\* arguments is rendered, with unified flags and options as without; and
\* consecutive sections are separated by a blank line.
C14_SectionOrder ==
    SectionsDone =>
        /\ \E K \in SUBSET (1..Len(DeclaredHeadings)) : Headers = HeadersInOrder(HeadingHeaders(K))
        /\ \A hd \in HeadingsWithArgs : \E i \in 1..Len(Headers) : Headers[i] = Header(hd)
        /\ BlankLineSeparated

\* The same without the unified section: with flags and options in their own
\* sections (or absent) all of C14 holds.
C14_SeparateSections ==
    SectionsDone /\ ~UnifiedSection =>
        /\ \E K \in SUBSET (1..Len(DeclaredHeadings)) : Headers = HeadersInOrder(HeadingHeaders(K))
        /\ \A hd \in HeadingsWithArgs : \E i \in 1..Len(Headers) : Headers[i] = Header(hd)
        /\ BlankLineSeparated

\* With the unified section, order and separation hold and no custom-heading
\* group is written.
C14_UnifiedDropsHeadings ==
    SectionsDone /\ UnifiedSection =>
        /\ Headers = HeadersInOrder(<<>>)
        /\ BlankLineSeparated

----------------------------------------------------------------------------
(* Properties of wrap_help *)

WrapDone == pc = "done" /\ wrap_in # <<>>

NewlineAsSpace(str) == [i \in 1..Len(str) |-> IF str[i] = "\n" THEN " " ELSE str[i]]

\* Every word of a text, in order, whatever line it stands on.
AllWords(str) == WordsOf(NewlineAsSpace(str))

\* For every word of the text, in order, the number of the line it stands on.
RECURSIVE WordLineFrom(_, _)
WordLineFrom(ls, i) ==
    IF ls = <<>> THEN <<>>
    ELSE [j \in 1..Len(WordsOf(Head(ls))) |-> i] \o WordLineFrom(Tail(ls), i + 1)

WordLine(str) == WordLineFrom(Split(str, "\n"), 1)

----------------------------------------------------------------------------
(* Properties of the line-break marker `{n}` *)

TextTags == {t_about, t_long_about, t_before_help, t_after_help}

\* The text a text tag stands for.
TextOf(a, tg) ==
    CASE tg = t_about -> a.about
      [] tg = t_long_about -> a.long_about
      [] tg = t_before_help -> a.pre_help
      [] tg = t_after_help -> a.more_help

DefaultDone == mode = "default" /\ pc = "done" /\ ~writer.failed

\* The default layout leaves no marker in the output, and the about text
\* comes out with a newline at every marker.
C15_DefaultLayout ==
    DefaultDone =>
        /\ ~ContainsN(out)
        /\ app.long_about.some =>
              \E i \in 1..Len(out) :
                  IsPrefix(ReplaceN(app.long_about.v) \o <<"\n">>, SubSeq(out, i, Len(out)))

\* C15: every `{n}` of an about, long-about, pre-help or post-help text is
\* a newline in the output, in the default layout and through the tags
\* {about}, {long-about}, {before-help} and {after-help}.
C15_MarkerReplaced ==
    /\ C15_DefaultLayout
    /\ \A tg \in TextTags :
          TemplateDone /\ tmpl = <<"a">> \o Wrap(tg) \o <<"}">> /\ TextOf(app, tg).some
              => out = <<"a">> \o ReplaceN(TextOf(app, tg).v) \o <<"}">>

\* What the text tags write: the text as it is, markers included.
C15_TagsWriteRaw ==
    \A tg \in TextTags :
        TemplateDone /\ tmpl = <<"a">> \o Wrap(tg) \o <<"}">> /\ TextOf(app, tg).some
            => out = <<"a">> \o TextOf(app, tg).v \o <<"}">>

----------------------------------------------------------------------------
(* Properties of the marker in argument help *)

HelpDone == pc = "done" /\ h_arg # <<>>

ReplacedIn(o) == IF o.some THEN Some(ReplaceN(o.v)) ELSE o

\* The argument with a real newline at each marker of its help texts.
Newlined(arg) ==
    [arg EXCEPT !.help = ReplacedIn(@), !.long_help = ReplacedIn(@)]

\* What write_arg renders for the argument whose texts hold the newlines.
NewlinedRender ==
    LET arg == Newlined(h_arg.arg)
    IN  HelpRender(arg, h_arg.spec_vals, h_arg.prevent_nlh,
                   ValForceNextLine(arg, h_arg.spec_vals), FALSE)

\* The bytes help writes for the lines of the help, indentation included.
LineBytes(r) == Flatten(HelpCalls([r EXCEPT !.closing = FALSE]))

\* C16: the help of an argument is rendered with the same lines, content and
\* indentation, whether its text holds `{n}` markers or real newlines at the
\* same positions, at every terminal width.
C16_MarkerEquivalence ==
    HelpDone =>
        /\ ~h_out.panicked
        /\ LineBytes(h_out) = LineBytes(NewlinedRender)

EndsWithNewline(str) == str # <<>> /\ str[Len(str)] = "\n"

\* Where no subtraction overflows, val takes the same decision for both
\* texts and the text does not end in a line break, the lines are the same.
C16_SameDecisionSameLines ==
    HelpDone /\ ~h_out.panicked
             /\ force_next_line = ValForceNextLine(Newlined(h_arg.arg), h_arg.spec_vals)
             /\ ~EndsWithNewline(ReplaceN(HelpString(use_long, h_arg.arg)) \o h_arg.spec_vals)
        => LineBytes(h_out) = LineBytes(NewlinedRender)

\* The argument help holds no marker once rendered.
C15_ArgumentHelp ==
    HelpDone /\ ~h_out.panicked =>
        \A i \in 1..Len(h_out.lines) : ~ContainsN(h_out.lines[i].str)

----------------------------------------------------------------------------
(* Properties of Styles *)

StylesBuilt == pc = "styles"

\* get_<x> and get_<x>_data, by the context's name.
Get(x, s) ==
    CASE x = "context_aliases" -> get_context_aliases(s)
      [] x = "context_default" -> get_context_default(s)
      [] x = "context_env" -> get_context_env(s)
      [] x = "context_possible_values" -> get_context_possible_values(s)

GetData(x, s) ==
    CASE x = "context_aliases" -> get_context_aliases_data(s)
      [] x = "context_default" -> get_context_default_data(s)
      [] x = "context_env" -> get_context_env_data(s)
      [] x = "context_possible_values" -> get_context_possible_values_data(s)

GetFixed(slot, s) ==
    CASE slot = "header" -> get_header(s)
      [] slot = "error" -> get_error(s)
      [] slot = "usage" -> get_usage(s)
      [] slot = "literal" -> get_literal(s)
      [] slot = "placeholder" -> get_placeholder(s)
      [] slot = "valid" -> get_valid(s)
      [] slot = "invalid" -> get_invalid(s)

\* The first style that is set along a chain of optional slots, else the
\* style of the slot that always holds one.
RECURSIVE FirstSet(_, _, _)
FirstSet(chain, last, s) ==
    IF chain = <<>> THEN s[last]
    ELSE IF s[Head(chain)].some THEN s[Head(chain)].v
    ELSE FirstSet(Tail(chain), last, s)

\* Every style a Styles value can hold here.
AllStyles == StylePool \cup {plain[f] : f \in FixedSlots \cup {"context"}}
                       \cup {styled[f] : f \in FixedSlots \cup {"context"}}

NoRepeat(seq) == \A i, j \in 1..Len(seq) : i # j => seq[i] # seq[j]

\* C18: for each context X and every Styles value, get_context_X_data
\* returns the first style set along context_X_data, context_X,
\* context_data, context, and get_context_X returns context_X if set, else
\* context; a resolution reads at most 4 slots, none twice, and yields a
\* style.
C18_FallbackChain ==
    StylesBuilt =>
        \A x \in Contexts :
            /\ GetData(x, styles)
                 = FirstSet(<<DataSlot(x), x, "context_data">>, "context", styles)
            /\ Get(x, styles) = FirstSet(<<x>>, "context", styles)
            /\ Len(Reads_get_context_x_data(DataSlot(x), x, styles)) <= 4
            /\ NoRepeat(Reads_get_context_x_data(DataSlot(x), x, styles))
            /\ Len(Reads_get_context(x, styles)) <= 2
            /\ GetData(x, styles) \in AllStyles
            /\ Get(x, styles) \in AllStyles

\* The aliases data style comes from context_data, three levels down, while
\* the env data style comes from context_env.
C18_Witness ==
    /\ StylesBuilt
    /\ ~styles.context_aliases_data.some
    /\ ~styles.context_aliases.some
    /\ styles.context_data = Some("italic")
    /\ styles.context = StyleNew
    /\ get_context_aliases_data(styles) = "italic"
    /\ ~styles.context_env_data.some
    /\ styles.context_env = Some(StyleNew)
    /\ get_context_env_data(styles) = StyleNew
    /\ Len(Reads_get_context_x_data("context_possible_values_data",
                                    "context_possible_values", styles)) = 3

Stored(slot, style) == IF slot \in OptionSlots THEN Some(style) ELSE style

\* C20: a setter overwrites its own slot and leaves the 16 others as they
\* are; after any sequence of setters every slot holds the style last
\* passed to its setter, or the preset's value when that setter was never
\* called, the seven fixed getters return it, and setters on different
\* slots commute.
C20_SettersOverwriteOneSlot ==
    StylesBuilt =>
        /\ \A slot \in Slots :
              styles[slot] = IF passed[slot].some
                             THEN Stored(slot, passed[slot].v)
                             ELSE preset[slot]
        /\ \A slot \in FixedSlots :
              GetFixed(slot, styles) = unwrap_or(passed[slot], preset[slot])
        /\ \A slot \in Slots, style \in StylePool :
              /\ Setter(slot, styles, style)[slot] = Stored(slot, style)
              /\ \A other \in Slots \ {slot} :
                    Setter(slot, styles, style)[other] = styles[other]
        /\ \A a, b \in Slots : \A x, y \in StylePool :
              a # b => Setter(a, Setter(b, styles, y), x)
                         = Setter(b, Setter(a, styles, x), y)

\* Two setters ran on the styled preset: header was overwritten, context
\* was set, and error still holds the preset's style.
C20_Witness ==
    /\ StylesBuilt
    /\ set_calls = 2
    /\ preset = styled
    /\ passed.header = Some("italic")
    /\ get_header(styles) = "italic"
    /\ passed.context.some
    /\ ~passed.error.some
    /\ get_error(styles) = "red_bold"

----------------------------------------------------------------------------
(* Properties of the text tags *)

ValueTags == {t_version, t_author} \cup TextTags

\* The value a value tag stands for, as the bytes written for it.
ValueOf(a, tg) ==
    IF tg = t_version
    THEN IF a.version.some THEN Some(<<a.version.v>>) ELSE None
    ELSE IF tg = t_author THEN a.author ELSE TextOf(a, tg)

\* What the render wrote between the literal bytes around the tag.
Expansion == SubSeq(out, 2, Len(out) - 1)

OneValueTag(tg) ==
    /\ mode = "template" /\ pc = "done" /\ fail_at = 0
    /\ tmpl = <<"a">> \o Wrap(tg) \o <<"}">>

\* C21: in template mode, with a sink that accepts the writes, each of the
\* tags {version}, {author}, {about}, {long-about}, {before-help} and
\* {after-help} leaves the render Ok; it expands to the value when the
\* command has one and to a non-empty placeholder when it has none.
C21_PlaceholderForAbsentValue ==
    \A tg \in ValueTags :
        OneValueTag(tg) =>
            /\ result = Ok
            /\ Len(out) >= 2 /\ Head(out) = "a" /\ out[Len(out)] = "}"
            /\ IF ValueOf(app, tg).some
               THEN Expansion = ValueOf(app, tg).v
               ELSE /\ Expansion # <<>>
                    /\ \A i \in 1..Len(Expansion) : Expansion[i] # ""

\* {long-about} of a command without a long about text wrote a placeholder.
C21_Witness ==
    /\ OneValueTag(t_long_about)
    /\ ~app.long_about.some
    /\ result = Ok
    /\ out = <<"a", "unknown about", "}">>

----------------------------------------------------------------------------
(* Properties of a pass on a reused Help value *)

IsSubcommandPass == pass = "write_subcommands"

\* longest as a Help value that ran no pass before would measure it.
FreshLongest ==
    IF IsSubcommandPass
    THEN SetMax({2} \cup {args[i].width : i \in {j \in 1..Len(args) : ~args[j].hidden}})
    ELSE SetMax({2} \cup {args[i].width : i \in
                            {j \in 1..Len(args) : VisibleMeasured(args[j])}})

\* What val / sc_val and help / sc_help do for an item, from the item, the
\* configuration and longest alone.
FreshPlaced(it) ==
    LET v == IF IsSubcommandPass THEN sc_val(it) ELSE val(it)
    IN  IF IsSubcommandPass
        THEN Placement(it, v, sc_help(it, v.force_next_line),
                       SubcommandLabelWritten(it), sc_HelpIndent(it, v.force_next_line))
        ELSE Placement(it, v, help(it, v.force_next_line),
                       LabelWritten(it), HelpIndent(it, v.force_next_line))

\* C22: whatever longest and force_next_line the pass before left, a pass
\* measures longest from 2 on its own group, every item is placed as its
\* own val / help decide, and force_next_line holds the decision of the
\* item rendered last.
C22_NoLeakBetweenPasses ==
    /\ Measured => longest = FreshLongest
    /\ Measured => \A i \in 1..Len(placed) : placed[i] = FreshPlaced(arg_v[i])
    /\ Rendered =>
          force_next_line = (IF IsSubcommandPass THEN sc_val(Last)
                             ELSE val(Last)).force_next_line

\* The pass before left longest = 20 and force_next_line set; this pass
\* measured 5 and padded its item on the label's line.
C22_Witness ==
    /\ PassDone
    /\ prior.longest = 20 /\ prior.force_next_line
    /\ longest = 5
    /\ Len(placed) = 1
    /\ placed[1].pad # NoPad
    /\ ~placed[1].newline
    /\ ~force_next_line

----------------------------------------------------------------------------
(* Properties of the help column *)

----------------------------------------------------------------------------
(* Properties of the post-help separator *)

IsSuffix(t, str) ==
    Len(t) <= Len(str) /\ SubSeq(str, Len(str) - Len(t) + 1, Len(str)) = t

\* The usage block as write_default_help ends it.
UsageEnd == <<"<usage>", "\n\n">>

\* write_all_args was not called or wrote no section.
NoSectionWritten ==
    ~AnyArgs(parser) \/ AllArgsCalls(use_long, color, parser) = <<>>

\* C24: in the default layout, when no section was written between the
\* usage block and the post-help text, no "\n\n" separator is written
\* between them either: the post-help text follows the usage block.
C24_SeparatorOnlyAfterSections ==
    DefaultDone /\ app.more_help.some /\ NoSectionWritten
        => IsSuffix(UsageEnd \o MoreHelpText, out)

\* What is written: the post-help text follows the usage block directly
\* only when the command declares no flag, option, positional or
\* subcommand at all, shown or not.
C24_SeparatorFollowsDeclared ==
    DefaultDone /\ app.more_help.some
        => (IsSuffix(UsageEnd \o MoreHelpText, out) <=> ~AnyArgs(parser))

----------------------------------------------------------------------------
(* Termination of write_templated_help *)

\* What the iteration about to run reads and decides.
NextCapture == copy_and_capture(tmplr, writer, tag_buf)

\* C25: the render ends; on a sink that accepts every write a templated
\* render ends with Ok and the whole template read; and every iteration of
\* the loop either returns or has consumed at least one byte of the
\* template.
C25_TemplatedHelpTerminates ==
    /\ <>(pc = "done")
    /\ [](TemplateDone /\ fail_at = 0 => result = Ok /\ tmplr.pos = Len(tmpl))
    /\ [](LoopEnabled =>
            \/ LoopControl(NextCapture) \in {"return_ok", "return_err"}
            \/ NextCapture.r.pos > tmplr.pos)

\* An empty tag, then a `{` followed by more bytes than the tag buffer
\* holds and no `}`.
C25_Witness ==
    /\ TemplateDone
    /\ fail_at = 0
    /\ tmpl = Wrap(<<>>) \o <<"{">> \o Repeat("a", TagBufLen + 1)
    /\ result = Ok
    /\ tmplr.pos = Len(tmpl)

----------------------------------------------------------------------------
(* The wrap width of help *)

\* C26: whenever the help text is re-wrapped, the indent subtracted from the
\* terminal width is at most the terminal width, also when the wrap is
\* triggered by a `{n}` marker.
C26_WrapWidthNonNegative ==
    HelpDone /\ h_out.wrapped => h_out.spcs <= term_w

----------------------------------------------------------------------------
(* Padding between a label and its help *)

\* nlh of val and of sc_val for the item just written.
ValNextLine ==
    next_line_help \/ (pass # "write_subcommands" /\ Last.next_line_help)

\* val and sc_val wrote padding after the label of the item just written.
ColumnMode == Rendered /\ ~ValNextLine /\ ~force_next_line

C28_PaddingOnlyOnSameLine ==
    Rendered => (ColumnMode <=> ~placed[cur].newline)

====
